---- MODULE Spec2Model ----
(***************************************************************************)
(* Model of the track-listing resolution engine of src/app.py: the entry   *)
(* parser with artist inference, the catalog resolvers (search_track,      *)
(* search_tracks_multiple, search_album), the feature consensus scoring    *)
(* and the handlers that sequence them (api_search_tracks, api_process,    *)
(* refresh_track).                                                         *)
(*                                                                         *)
(* Text is handled as the code handles it: a string is taken apart into    *)
(* its characters (Chars), the regular expressions and str methods of the  *)
(* source are operators on character sequences, and the results are put    *)
(* back together (Str).  Floating point scores are modelled as exact       *)
(* rationals <<numerator, denominator>>.                                    *)
(***************************************************************************)
EXTENDS Integers, Sequences, FiniteSets, TLC

VARIABLES
    pc,           \* where the operation under way stands
    lines,        \* parse_lines_with_artist_inference: the lines given
    last_artist,  \* parse_lines_with_artist_inference: last_artist
    results,      \* parse_lines_with_artist_inference: results
    request,      \* the arguments of the search or of the HTTP request
    calls,        \* the calls made to the catalog, with its answers
    ret,          \* what the operation returned
    locals,       \* the local variables of the HTTP handler under way
    feature_db    \* what the Feature Service holds, by track id

parseVars == <<lines, last_artist, results>>
searchVars == <<request, calls, ret>>
handlerVars == <<locals, feature_db>>
vars == <<pc, lines, last_artist, results, request, calls, ret, locals,
          feature_db>>

\* Optional values: None, or Some(x)
None == <<>>
Some(x) == <<x>>

\* The element of a one-element set. The({F(x) : x \in {e}}) is F(e) with e
\* worked out once.
The(S) == CHOOSE x \in S : TRUE

\* the sequences over set of length at most n
SeqsUpTo(set, n) == UNION {[1..k -> set] : k \in 0..n}

(***************************************************************************)
(* Characters and strings                                                  *)
(***************************************************************************)
Chars(s) == [i \in 1..Len(s) |-> SubSeq(s, i, i)]

RECURSIVE Str(_)
Str(q) == IF q = <<>> THEN "" ELSE Head(q) \o Str(Tail(q))

WS == {" ", "\t"}
Digits == {"0", "1", "2", "3", "4", "5", "6", "7", "8", "9"}

DigitVal(c) ==
    CASE c = "0" -> 0 [] c = "1" -> 1 [] c = "2" -> 2 [] c = "3" -> 3
      [] c = "4" -> 4 [] c = "5" -> 5 [] c = "6" -> 6 [] c = "7" -> 7
      [] c = "8" -> 8 [] c = "9" -> 9

\* int("...") of a run of digits
RECURSIVE IntOf(_)
IntOf(q) == IF q = <<>> THEN 0
            ELSE 10 * IntOf(SubSeq(q, 1, Len(q) - 1)) + DigitVal(q[Len(q)])

Slice(q, a, b) == IF a > b THEN <<>> ELSE SubSeq(q, a, b)

\* str.lstrip(), str.rstrip(), str.strip()
RECURSIVE LStrip(_)
LStrip(q) == IF q # <<>> /\ Head(q) \in WS THEN LStrip(Tail(q)) ELSE q

RECURSIVE RStrip(_)
RStrip(q) == IF q # <<>> /\ q[Len(q)] \in WS
             THEN RStrip(SubSeq(q, 1, Len(q) - 1)) ELSE q

Strip(q) == LStrip(RStrip(q))

\* str.rstrip("*")
RECURSIVE RStripStar(_)
RStripStar(q) == IF q # <<>> /\ q[Len(q)] = "*"
                 THEN RStripStar(SubSeq(q, 1, Len(q) - 1)) ELSE q

\* sub occurs in q at position i
OccursAt(q, sub, i) ==
    /\ i >= 1
    /\ i + Len(sub) - 1 <= Len(q)
    /\ \A k \in 1..Len(sub) : q[i + k - 1] = sub[k]

\* `sub in q`
Contains(q, sub) == \E i \in 1..(Len(q) + 1) : OccursAt(q, sub, i)

\* q.find(sub) + 1, and 0 when sub does not occur
Find(q, sub) ==
    IF Contains(q, sub)
    THEN CHOOSE i \in 1..(Len(q) + 1) :
            OccursAt(q, sub, i) /\ \A j \in 1..(i - 1) : ~OccursAt(q, sub, j)
    ELSE 0

EndsWith(q, c) == q # <<>> /\ q[Len(q)] = c

\* q.split(sep): the pieces between the occurrences of the non-empty sep
RECURSIVE Split(_, _)
Split(q, sep) ==
    LET i == Find(q, sep) IN
    IF i = 0 THEN <<q>>
    ELSE <<Slice(q, 1, i - 1)>> \o Split(Slice(q, i + Len(sep), Len(q)), sep)

\* q.split(sep, 1)
SplitOnce(q, sep) ==
    LET i == Find(q, sep) IN
    IF i = 0 THEN <<q>>
    ELSE <<Slice(q, 1, i - 1), Slice(q, i + Len(sep), Len(q))>>

\* " ".join(parts)
RECURSIVE JoinSpace(_)
JoinSpace(parts) ==
    IF parts = <<>> THEN <<>>
    ELSE IF Len(parts) = 1 THEN parts[1]
    ELSE parts[1] \o <<" ">> \o JoinSpace(Tail(parts))

\* [f(p) for p in parts if f(p)] with f = strip
RECURSIVE StripNonEmpty(_)
StripNonEmpty(parts) ==
    IF parts = <<>> THEN <<>>
    ELSE LET p == Strip(Head(parts)) IN
         (IF p = <<>> THEN <<>> ELSE <<p>>) \o StripNonEmpty(Tail(parts))

AllDigits(q) == q # <<>> /\ \A i \in 1..Len(q) : q[i] \in Digits

(***************************************************************************)
(* normalize_separators                                                    *)
(***************************************************************************)
EnDash == "EN DASH"
EmDash == "EM DASH"
WideColon == "FULLWIDTH COLON"
WideSemicolon == "FULLWIDTH SEMICOLON"

normalize_separators(q) ==
    [i \in 1..Len(q) |->
        CASE q[i] = EnDash -> "-"
          [] q[i] = EmDash -> "-"
          [] q[i] = WideColon -> ":"
          [] q[i] = WideSemicolon -> ";"
          [] OTHER -> q[i]]

(***************************************************************************)
(* parse_artist_title_duration                                             *)
(*                                                                         *)
(* A value that is used more than once is handed on as a parameter of a    *)
(* local operator, in the order the code computes it.                      *)
(***************************************************************************)
\* re.search(r"(\d{1,2}):(\d{2})\s*$", q): where the match starts, 0 for no
\* match.  The two digits of the seconds are the last characters before the
\* trailing white space, and the leftmost match takes two digits of minutes
\* when there are two.
DurationStart(q) ==
    LET At(e) ==
            IF /\ e >= 4
               /\ q[e] \in Digits
               /\ q[e - 1] \in Digits
               /\ q[e - 2] = ":"
               /\ q[e - 3] \in Digits
            THEN (IF e >= 5 /\ q[e - 4] \in Digits THEN e - 4 ELSE e - 3)
            ELSE 0
    IN  At(Len(RStrip(q)))

\* mins * 60 + secs of the match that starts at s
DurationSec(q, s) ==
    LET At(e) == IntOf(Slice(q, s, e - 3)) * 60 + IntOf(Slice(q, e - 1, e))
    IN  At(Len(RStrip(q)))

\* line[:duration_match.start()].rstrip(), the line itself without a match
CutDuration(q, s) == IF s > 0 THEN RStrip(Slice(q, 1, s - 1)) ELSE q

\* re.match(r"^\d{1,2}:\d{2}$", p)
IsDuration(p) ==
    /\ Len(p) \in {4, 5}
    /\ p[Len(p)] \in Digits
    /\ p[Len(p) - 1] \in Digits
    /\ p[Len(p) - 2] = ":"
    /\ \A i \in 1..(Len(p) - 3) : p[i] \in Digits

\* the length of the longest prefix of q made of characters of set
RECURSIVE PrefixLen(_, _)
PrefixLen(q, set) ==
    IF q # <<>> /\ Head(q) \in set THEN 1 + PrefixLen(Tail(q), set) ELSE 0

\* re.sub(r"^\d+\s+", "", q)
StripTrackNumber(q) ==
    LET Cut(d, w) == IF d >= 1 /\ w >= 1 THEN Slice(q, d + w + 1, Len(q)) ELSE q
        After(d) == Cut(d, PrefixLen(Slice(q, d + 1, Len(q)), WS))
    IN  After(PrefixLen(q, Digits))

\* re.search(r"\d{1,2}:\d{2}", q)
LooksLikeTime(q) ==
    \E i \in 1..Len(q) :
        /\ i + 3 <= Len(q)
        /\ q[i] \in Digits
        /\ q[i + 1] = ":"
        /\ q[i + 2] \in Digits
        /\ q[i + 3] \in Digits

SpacedDash == <<" ", "-", " ">>

\* The tab-separated branch (src/app.py 214-268): artist and title out of the
\* stripped original line.  A stripped line that holds a tab has at least two
\* non-empty fields, so parts[0] and parts[-1] exist.
TabFields(original_line, inferred_artist) ==
    LET Pair(artist, title) == [artist |-> Strip(artist), title |-> Strip(title)]
        Several(first_part, rest) ==
            IF EndsWith(first_part, "-")
            THEN Pair(SubSeq(first_part, 1, Len(first_part) - 1), rest)
            ELSE IF Contains(first_part, SpacedDash)
            THEN Pair(SplitOnce(first_part, SpacedDash)[1],
                      SplitOnce(first_part, SpacedDash)[2] \o <<" ">> \o rest)
            ELSE Pair(first_part, rest)
        Single(part, is_track_number) ==
            IF is_track_number
            THEN [artist |-> inferred_artist, title |-> Strip(part)]
            ELSE IF Contains(part, <<"-">>)
            \* "parse normally": the code resets line, artist and title and
            \* parses nothing after it
            THEN [artist |-> <<>>, title |-> <<>>]
            ELSE [artist |-> inferred_artist, title |-> Strip(part)]
        Fields(parts, is_track_number) ==
            IF Len(parts) >= 2 THEN Several(parts[1], JoinSpace(Tail(parts)))
            ELSE IF Len(parts) = 1 THEN Single(parts[1], is_track_number)
            ELSE [artist |-> <<>>, title |-> <<>>]
        Numbered(parts, is_track_number) ==
            Fields(IF is_track_number THEN Tail(parts) ELSE parts, is_track_number)
        NoDuration(parts) == Numbered(parts, parts # <<>> /\ AllDigits(parts[1]))
        All(parts) ==
            NoDuration(IF parts # <<>> /\ IsDuration(parts[Len(parts)])
                       THEN SubSeq(parts, 1, Len(parts) - 1) ELSE parts)
    IN  All(StripNonEmpty(Split(original_line, <<"\t">>)))

\* The mutation of SplitArtistTitle used to test the order of the separators:
\* the bare dash comes before the spaced one.
SplitBareDashFirst(l) ==
    LET Pair(parts) == [artist |-> Strip(parts[1]), title |-> Strip(parts[2])] IN
    IF Contains(l, <<"-">>) THEN Pair(SplitOnce(l, <<"-">>))
    ELSE IF Contains(l, <<":">>) /\ ~LooksLikeTime(l) THEN Pair(SplitOnce(l, <<":">>))
    ELSE [artist |-> <<>>, title |-> Strip(l)]

\* the split of a line without tabs into artist and title (src/app.py 274-289)
SplitArtistTitle(l) ==
    LET Pair(parts) == [artist |-> Strip(parts[1]), title |-> Strip(parts[2])] IN
    IF Contains(l, SpacedDash) THEN Pair(SplitOnce(l, SpacedDash))
    ELSE IF Contains(l, <<"-">>) THEN Pair(SplitOnce(l, <<"-">>))
    ELSE IF Contains(l, <<":">>) /\ ~LooksLikeTime(l) THEN Pair(SplitOnce(l, <<":">>))
    ELSE [artist |-> <<>>, title |-> Strip(l)]

\* The branch of a line without tabs (src/app.py 270-305).  line is the
\* line with its duration removed.
PlainFields(line, original_line, inferred_artist) ==
    LET Whole(s) == StripTrackNumber(Strip(CutDuration(original_line, s)))
        Choose(l, artist, title) ==
            IF artist = <<>> /\ inferred_artist # <<>>
            THEN [artist |-> inferred_artist,
                  title  |-> IF title = <<>> \/ title = l
                             THEN Whole(DurationStart(original_line))
                             ELSE title]
            ELSE [artist |-> artist, title |-> title]
        Infer(l, split) == Choose(l, Strip(RStripStar(split.artist)), split.title)
        Fields(l) == Infer(l, SplitArtistTitle(l))
    IN  Fields(StripTrackNumber(Strip(line)))

\* The mutation of ResultArtist used to test the inference claims: the
\* context artist is dropped.
ResultNoContext(own, inferred) == own

\* artist of the returned tuple (src/app.py 309-317)
ResultArtist(own, inferred) == IF own = <<>> THEN inferred ELSE own

parse_artist_title_duration(line, inferred_artist) ==
    LET Result(f, inferred, duration_sec) ==
            [artist   |-> Str(ResultArtist(f.artist, inferred)),
             title    |-> Str(Strip(f.title)),
             duration |-> duration_sec]
        Fields(original_line, norm, s, inferred) ==
            Result(IF Contains(original_line, <<"\t">>)
                   THEN TabFields(original_line, inferred)
                   ELSE PlainFields(CutDuration(norm, s), original_line, inferred),
                   inferred,
                   IF s > 0 THEN Some(DurationSec(norm, s)) ELSE None)
        Normalized(raw, norm) ==
            Fields(Strip(raw), norm, DurationStart(norm), Chars(inferred_artist))
        Raw(raw) == Normalized(raw, normalize_separators(raw))
    IN  Raw(Chars(line))

(***************************************************************************)
(* Scores: exact rationals <<n, d>> with d > 0, in lowest terms            *)
(***************************************************************************)
Abs(x) == IF x < 0 THEN -x ELSE x

RECURSIVE GCD(_, _)
GCD(x, y) == IF y = 0 THEN x ELSE GCD(y, x % y)

R(n, d) == LET Lowest(g) == <<n \div g, d \div g>> IN Lowest(GCD(Abs(n), d))

RAdd(x, y) == R(x[1] * y[2] + y[1] * x[2], x[2] * y[2])
RSub(x, y) == R(x[1] * y[2] - y[1] * x[2], x[2] * y[2])
RMul(x, y) == R(x[1] * y[1], x[2] * y[2])
RLess(x, y) == x[1] * y[2] < y[1] * x[2]
RLeq(x, y) == x[1] * y[2] <= y[1] * x[2]
RMin(x, y) == IF RLess(y, x) THEN y ELSE x
RMax(x, y) == IF RLess(x, y) THEN y ELSE x

Zero == R(0, 1)
One == R(1, 1)

(***************************************************************************)
(* similarity: difflib.SequenceMatcher(None, a, b).ratio()                 *)
(***************************************************************************)
UpperCase == Chars("ABCDEFGHIJKLMNOPQRSTUVWXYZ")
LowerCase == Chars("abcdefghijklmnopqrstuvwxyz")

\* str.lower()
Lower(q) ==
    [i \in 1..Len(q) |->
        IF \E k \in 1..26 : UpperCase[k] = q[i]
        THEN LowerCase[CHOOSE k \in 1..26 : UpperCase[k] = q[i]]
        ELSE q[i]]

\* the length of the longest common run of a from i and b from j
RECURSIVE RunLen(_, _, _, _)
RunLen(a, b, i, j) ==
    IF i <= Len(a) /\ j <= Len(b) /\ a[i] = b[j]
    THEN 1 + RunLen(a, b, i + 1, j + 1) ELSE 0

SetMax(set) == CHOOSE x \in set : \A y \in set : y <= x
SetMin(set) == CHOOSE x \in set : \A y \in set : x <= y

\* find_longest_match on the whole of a and b: <<i, j, k>>, the longest
\* common block, the one that starts earliest in a and, of these, earliest in
\* b; k = 0 when a and b share no character.
LongestMatch(a, b) ==
    LET InB(runs, k, i) ==
            <<i, SetMin({j \in 1..Len(b) : runs[<<i, j>>] = k}), k>>
        InA(runs, k) ==
            InB(runs, k, SetMin({i \in 1..Len(a) :
                                    \E j \in 1..Len(b) : runs[<<i, j>>] = k}))
        Longest(runs) == InA(runs, SetMax({runs[p] : p \in DOMAIN runs}))
    IN  Longest([p \in (1..Len(a)) \X (1..Len(b)) |-> RunLen(a, b, p[1], p[2])])

\* sum of the sizes of get_matching_blocks(): the longest match, then the
\* same to its left and to its right
RECURSIVE MatchCount(_, _)
MatchCount(a, b) ==
    LET Around(m) ==
            IF m[3] = 0 THEN 0
            ELSE m[3]
                 + MatchCount(Slice(a, 1, m[1] - 1), Slice(b, 1, m[2] - 1))
                 + MatchCount(Slice(a, m[1] + m[3], Len(a)),
                              Slice(b, m[2] + m[3], Len(b)))
    IN  IF a = <<>> \/ b = <<>> THEN 0 ELSE Around(LongestMatch(a, b))

\* ratio(): 2.0 * matches / (len(a) + len(b))
Ratio(a, b) == R(2 * MatchCount(a, b), Len(a) + Len(b))

\* similarity on character sequences
SimilarityOf(a, b) ==
    LET Of(x, y) == IF x = <<>> \/ y = <<>> THEN Zero ELSE Ratio(x, y)
    IN  Of(Strip(Lower(a)), Strip(Lower(b)))

similarity(a, b) == SimilarityOf(Chars(a), Chars(b))

(***************************************************************************)
(* best_artist_similarity                                                  *)
(***************************************************************************)
\* the separators of re_split_multi, in the order of the pattern
CoCreditSeps == <<Chars(","), Chars("&"), Chars("feat."), Chars("ft."),
                  Chars("featuring")>>

\* the first separator of the pattern that occurs in q at i, <<>> when none
SepAt(q, i) ==
    LET Hits == {k \in 1..Len(CoCreditSeps) : OccursAt(q, CoCreditSeps[k], i)}
    IN  IF Hits = {} THEN <<>> ELSE CoCreditSeps[SetMin(Hits)]

\* The mutation of re_split_multi used to test the co-credit claim: the
\* requested credit is taken whole.
NoSplit(q) == <<q>>

\* re.split(pattern, q)
RECURSIVE re_split_multi(_)
re_split_multi(q) ==
    LET At(i) ==
            <<Slice(q, 1, i - 1)>>
                \o re_split_multi(Slice(q, i + Len(SepAt(q, i)), Len(q)))
        Hits == {i \in 1..Len(q) : SepAt(q, i) # <<>>}
    IN  IF Hits = {} THEN <<q>> ELSE At(SetMin(Hits))

\* max of similarity(r, c) over the requested parts r and the candidate's
\* artists c, 0.0 when there is no pair
MaxSimilarity(parts, cands) ==
    LET Pairs == {<<i, j>> : i \in 1..Len(parts), j \in 1..Len(cands)}
        Sims == {SimilarityOf(parts[p[1]], Strip(Lower(Chars(cands[p[2]])))) : p \in Pairs}
    IN  IF Sims = {} THEN Zero
        ELSE CHOOSE s \in Sims : \A u \in Sims : RLeq(u, s)

best_artist_similarity(requested, candidate_artists) ==
    IF requested = "" THEN Zero
    ELSE MaxSimilarity(StripNonEmpty(re_split_multi(Lower(Chars(requested)))),
                       candidate_artists)

(***************************************************************************)
(* clean_line and clean_and_normalize                                      *)
(***************************************************************************)
BoxDrawing == "BOX DRAWINGS LIGHT HORIZONTAL"
OneThird == "VULGAR FRACTION ONE THIRD"

\* [A-D] under re.IGNORECASE
SideLetters == {"A", "B", "C", "D", "a", "b", "c", "d"}

\* \w
WordChars ==
    {UpperCase[k] : k \in 1..26} \cup {LowerCase[k] : k \in 1..26}
        \cup Digits \cup {"_", OneThird}

\* Where a match of ^\s*[A-D]?\d+ ends in q, 0 for no match.
LeadingNumber(q) ==
    LET w == PrefixLen(q, WS)
        a == IF w < Len(q) /\ q[w + 1] \in SideLetters THEN 1 ELSE 0
        d == PrefixLen(Slice(q, w + a + 1, Len(q)), Digits)
    IN  IF d >= 1 THEN w + a + d ELSE 0

\* re.sub(r"^\s*[A-D]?\d+\s*[\.\-\)]\s*", "", q, flags=re.IGNORECASE)
StripNumbering(q) ==
    LET n == LeadingNumber(q)
        p == n + PrefixLen(Slice(q, n + 1, Len(q)), WS) + 1
    IN  IF n > 0 /\ p <= Len(q) /\ q[p] \in {".", "-", ")"}
        THEN Slice(q, p + 1 + PrefixLen(Slice(q, p + 1, Len(q)), WS), Len(q))
        ELSE q

\* re.sub(r"^\s*[A-D]?\d+\s+", "", q, flags=re.IGNORECASE)
StripNumber(q) ==
    LET n == LeadingNumber(q)
        w == PrefixLen(Slice(q, n + 1, Len(q)), WS)
    IN  IF n > 0 /\ w >= 1 THEN Slice(q, n + w + 1, Len(q)) ELSE q

\* re.sub(r"^Side\s+[A-D]\s*:?", "", q, flags=re.IGNORECASE).strip()
StripSide(q) ==
    LET w == PrefixLen(Slice(q, 5, Len(q)), WS)
        e == 5 + w
        c == e + PrefixLen(Slice(q, e + 1, Len(q)), WS) + 1
    IN  IF /\ Len(q) >= 4
           /\ Lower(SubSeq(q, 1, 4)) = Chars("side")
           /\ w >= 1
           /\ e <= Len(q)
           /\ q[e] \in SideLetters
        THEN Strip(Slice(q, IF c <= Len(q) /\ q[c] = ":" THEN c + 1 ELSE c,
                         Len(q)))
        ELSE Strip(q)

\* re.sub(r"\*+\s*(?=-\s|$)", "", q): a run of asterisks and the white space
\* after it go when a dash and white space, or the end, follow.
RECURSIVE StripStars(_)
StripStars(q) ==
    LET s == PrefixLen(q, {"*"})
        e == s + PrefixLen(Slice(q, s + 1, Len(q)), WS) + 1
    IN  IF q = <<>> THEN <<>>
        ELSE IF Head(q) # "*" THEN <<Head(q)>> \o StripStars(Tail(q))
        ELSE IF e > Len(q) \/ (q[e] = "-" /\ e < Len(q) /\ q[e + 1] \in WS)
        THEN StripStars(Slice(q, e, Len(q)))
        ELSE <<"*">> \o StripStars(Tail(q))

\* text starts with one of words, text contains one of words (IGNORECASE)
StartsWithAny(text, words) ==
    \E w \in words : OccursAt(Lower(text), Lower(Chars(w)), 1)
ContainsAny(text, words) ==
    \E w \in words : Contains(Lower(text), Lower(Chars(w)))

\* The text a trailing group must hold to be removed (src/app.py 67-81):
\* (LP|Album|EP|Single)[^)]* in parentheses, then
\* [^)]*(Reissue|Remastered|Press|JP-|US-|UK-)[^)]* in parentheses, then
\* any text in brackets.
GroupOk(kind, text) ==
    IF kind = "album" THEN StartsWithAny(text, {"LP", "Album", "EP", "Single"})
    ELSE IF kind = "press"
    THEN ContainsAny(text, {"Reissue", "Remastered", "Press", "JP-", "US-", "UK-"})
    ELSE TRUE

\* re.sub(r"\s*" + open + body + close + r"\s*$", "", q) for a body without
\* close: the last group of q, when q ends with one whose text is of kind,
\* goes with the white space around it (the leftmost open that fits is taken).
TrailingGroup(q, open, close, kind) ==
    LET e == Len(RStrip(q))
        Starts == {p \in 1..(e - 1) :
                      /\ q[p] = open
                      /\ \A k \in (p + 1)..(e - 1) : q[k] # close
                      /\ GroupOk(kind, Slice(q, p + 1, e - 1))}
    IN  IF e >= 2 /\ q[e] = close /\ Starts # {}
        THEN RStrip(Slice(q, 1, SetMin(Starts) - 1))
        ELSE q

\* re.sub(r"\s+\[(Remastered|Remix|Edit|Version|Bonus Track)\]$", "", q,
\*        flags=re.IGNORECASE)
StripVersionTag(q) ==
    LET Tags == {"remastered", "remix", "edit", "version", "bonus track"}
        Starts == {p \in 2..Len(q) :
                      /\ q[p] = "["
                      /\ q[p - 1] \in WS
                      /\ q[Len(q)] = "]"
                      /\ \E w \in Tags :
                            Lower(Slice(q, p + 1, Len(q) - 1)) = Chars(w)}
    IN  IF Starts # {} THEN RStrip(Slice(q, 1, SetMin(Starts) - 1)) ELSE q

\* The mutation of IsDivider used to test the dropping of noise lines.
NeverDivider(q) == FALSE

\* re.fullmatch(r"[-_~=\*\u2500-\u257F\.\s]+", q)
IsDivider(q) ==
    /\ q # <<>>
    /\ \A i \in 1..Len(q) :
           q[i] \in {"-", "_", "~", "=", "*", ".", BoxDrawing} \cup WS

\* re.sub(r"\s*\b(FOURSIDER|STEREO|MONO|QUADROPHONIC|33\u2153|33RPM|45RPM)\b\s*$",
\*        "", q, flags=re.IGNORECASE)
StripLayoutWord(q) ==
    LET Words == {Chars("foursider"), Chars("stereo"), Chars("mono"),
                  Chars("quadrophonic"), <<"3", "3", OneThird>>,
                  Chars("33rpm"), Chars("45rpm")}
        e == Len(RStrip(q))
        Fits == {w \in Words :
                    /\ Len(w) <= e
                    /\ Lower(Slice(q, e - Len(w) + 1, e)) = w
                    /\ e = Len(w) \/ q[e - Len(w)] \notin WordChars}
    IN  IF Fits # {}
        THEN RStrip(Slice(q, 1, e - SetMax({Len(w) : w \in Fits})))
        ELSE q

\* re.sub(r"\s{2,}", " ", q)
RECURSIVE CollapseSpaces(_)
CollapseSpaces(q) ==
    IF q = <<>> THEN <<>>
    ELSE IF PrefixLen(q, WS) >= 2
    THEN <<" ">> \o CollapseSpaces(Slice(q, PrefixLen(q, WS) + 1, Len(q)))
    ELSE <<Head(q)>> \o CollapseSpaces(Tail(q))

\* clean_line from the bracket metadata on (src/app.py 64-106)
CleanTail(q) ==
    LET Cleared(r) ==
            IF IsDivider(r) THEN <<>>
            ELSE Strip(CollapseSpaces(StripLayoutWord(r)))
    IN  Cleared(StripVersionTag(
            TrailingGroup(TrailingGroup(TrailingGroup(q, "(", ")", "album"),
                                        "(", ")", "press"),
                          "[", "]", "any")))

\* clean_line
clean_line(line) ==
    IF Strip(line) = <<>> THEN <<>>
    ELSE CleanTail(StripStars(StripSide(StripNumber(StripNumbering(Strip(line))))))

\* normalize_separators followed by clean_line, as clean_and_normalize
\* applies them to a line
Normalize(x) == clean_line(normalize_separators(x))

\* clean_and_normalize for raw given as its lines (raw.splitlines()), each a
\* sequence of characters; the lines kept are strings.
RECURSIVE clean_and_normalize(_)
clean_and_normalize(raw) ==
    IF raw = <<>> THEN <<>>
    ELSE (IF clean_line(normalize_separators(Head(raw))) # <<>>
          THEN <<Str(clean_line(normalize_separators(Head(raw))))>>
          ELSE <<>>)
         \o clean_and_normalize(Tail(raw))

(***************************************************************************)
(* The Catalog Service (sp.search) and the scoring of its candidates       *)
(***************************************************************************)
\* Tracks the catalog may hold: [id, name, artists, duration_ms, popularity].
Track(id, name, artists, duration_ms, popularity) ==
    [id |-> id, name |-> name, artists |-> artists,
     duration_ms |-> duration_ms, popularity |-> popularity]

SearchTracks ==
    { Track("t1", "So What", <<"Miles Davis">>, Some(562000), 40),
      Track("t2", "So What", <<"Miles Davis">>, Some(566500), 70),
      Track("t3", "So What", <<"Miles Davis", "Bill Evans">>, Some(600000), 55),
      Track("t4", "Blue", <<"X">>, Some(0), 90) }

\* What sp.search(q, type, limit) may answer from the tracks of universe:
\* at most limit items, no item twice.
Answers(universe, limit) ==
    {s \in SeqsUpTo(universe, Cardinality(universe)) :
        /\ Len(s) <= limit
        /\ \A i, j \in 1..Len(s) : i # j => s[i] # s[j]}

\* int(round(n / d)): Python rounds a half to the even neighbour
RoundHalfEven(n, d) ==
    LET q == n \div d
        r == n % d
    IN  IF 2 * r < d THEN q
        ELSE IF 2 * r > d THEN q + 1
        ELSE IF q % 2 = 0 THEN q ELSE q + 1

\* The mutation of DurPenalty used to test the score formula: the cap of 0.5
\* is forgotten.
UncappedPenalty(duration_sec, cand_dur_ms) ==
    LET Of(diff) == IF diff > 5 THEN R(diff, 60) ELSE Zero IN
    IF duration_sec # None /\ cand_dur_ms # None /\ cand_dur_ms[1] # 0
    THEN Of(Abs(RoundHalfEven(cand_dur_ms[1], 1000) - duration_sec[1]))
    ELSE Zero

\* the duration penalty (src/app.py 445-451, 497-503)
DurPenalty(duration_sec, cand_dur_ms) ==
    LET Of(diff) == IF diff > 5 THEN RMin(R(1, 2), R(diff, 60)) ELSE Zero IN
    IF duration_sec # None /\ cand_dur_ms # None /\ cand_dur_ms[1] # 0
    THEN Of(Abs(RoundHalfEven(cand_dur_ms[1], 1000) - duration_sec[1]))
    ELSE Zero

\* score = 0.6 * title_score + 0.4 * artist_score - dur_penalty
Score(title_score, artist_score, dur_penalty) ==
    RSub(RAdd(RMul(R(6, 10), title_score), RMul(R(4, 10), artist_score)),
         dur_penalty)

\* the score of one candidate (src/app.py 435-453, 487-505)
CandidateScore(cand, artist, title, duration_sec) ==
    The({Score(title_score, artist_score, dur_penalty) :
            title_score \in {similarity(title, cand.name)},
            artist_score \in {IF artist # ""
                              THEN best_artist_similarity(artist, cand.artists)
                              ELSE Zero},
            dur_penalty \in {DurPenalty(duration_sec, cand.duration_ms)}})

\* [(cand, score) for cand in items]
RECURSIVE ScoredItems(_, _, _, _)
ScoredItems(items, artist, title, duration_sec) ==
    IF items = <<>> THEN <<>>
    ELSE <<[cand |-> Head(items),
            score |-> CandidateScore(Head(items), artist, title, duration_sec)]>>
         \o ScoredItems(Tail(items), artist, title, duration_sec)

\* the structured query of search_track and search_tracks_multiple
StructuredQuery(artist, title) ==
    IF artist # ""
    THEN "track:\"" \o title \o "\" artist:\"" \o artist \o "\""
    ELSE "track:\"" \o title \o "\""

\* the looser fallback query
LooseQuery(artist, title) == artist \o " " \o title

Call(q, limit, items) == [q |-> q, type |-> "track", limit |-> limit, items |-> items]

\* The mutation of NeedsLooseRetry used to test the retry claim: never retry.
NeverRetry(items, artist) == FALSE

\* `if not items and artist:` (src/app.py 423, 477)
NeedsLooseRetry(items, artist) == items = <<>> /\ artist # ""

\* The queries of search_track and search_tracks_multiple (src/app.py
\* 421-426, 475-480), the catalog answering answer1 to the structured query
\* and answer2 to the loose one: the calls made and the items kept.
SearchItems(artist, title, limit, answer1, answer2) ==
    IF NeedsLooseRetry(answer1, artist)
    THEN [calls |-> <<Call(StructuredQuery(artist, title), limit, answer1),
                      Call(LooseQuery(artist, title), limit, answer2)>>,
          items |-> answer2]
    ELSE [calls |-> <<Call(StructuredQuery(artist, title), limit, answer1)>>,
          items |-> answer1]

\* The mutation of SingleBestThreshold used to test the acceptance bar.
LowBar == R(30, 100)

\* `if best_score < 0.55: return None`
SingleBestThreshold == R(55, 100)

\* `if score >= 0.3`
RankedThreshold == R(30, 100)

\* The loop of search_track over the scored items from the k-th on
\* (src/app.py 434-457): <<best, best_score>>.
RECURSIVE BestFrom(_, _, _, _)
BestFrom(scored, k, best, best_score) ==
    IF k > Len(scored) THEN <<best, best_score>>
    ELSE IF RLess(best_score, scored[k].score)
    THEN BestFrom(scored, k + 1, Some(scored[k].cand), scored[k].score)
    ELSE BestFrom(scored, k + 1, best, best_score)

\* search_track, given the catalog's answers: the calls it makes and what it
\* returns (None, or Some(track)).
search_track(artist, title, duration_sec, answer1, answer2) ==
    LET Pick(made, scored) ==
            The({[calls |-> made,
                  ret   |-> IF RLess(b[2], SingleBestThreshold) THEN None
                            ELSE b[1]] :
                 b \in {BestFrom(scored, 1, None, R(-1, 1))}})
        Choose(found) ==
            IF found.items = <<>> THEN [calls |-> found.calls, ret |-> None]
            ELSE The({Pick(found.calls, scored) :
                      scored \in {ScoredItems(found.items, artist, title,
                                              duration_sec)}})
    IN  IF title = "" THEN [calls |-> <<>>, ret |-> None]
        ELSE Choose(SearchItems(artist, title, 10, answer1, answer2))

\* The mutation of SortDesc used to test the ranked order: no sort.
Unsorted(s) == s

\* list.sort(key=score, reverse=True) of a list s given by value: the sort
\* is stable, items of equal score keep their order.
SortDesc(s) ==
    LET Before(j, k) ==
            \/ RLess(s[k].score, s[j].score)
            \/ s[j].score = s[k].score /\ j < k
        Rank(k) == 1 + Cardinality({j \in 1..Len(s) : Before(j, k)})
    IN  [p \in 1..Len(s) |-> s[CHOOSE k \in 1..Len(s) : Rank(k) = p]]

\* [x for x in s if x.score >= bar]
RECURSIVE ScoreAtLeast(_, _)
ScoreAtLeast(s, bar) ==
    IF s = <<>> THEN <<>>
    ELSE (IF RLeq(bar, Head(s).score) THEN <<Head(s)>> ELSE <<>>)
         \o ScoreAtLeast(Tail(s), bar)

\* search_tracks_multiple, given the catalog's answers: the calls it makes
\* and the list of [cand, score] it returns.
search_tracks_multiple(artist, title, duration_sec, limit, answer1, answer2) ==
    LET Rank(found) ==
            The({[calls |-> found.calls,
                  ret   |-> ScoreAtLeast(SortDesc(scored), RankedThreshold)] :
                 scored \in {ScoredItems(found.items, artist, title,
                                         duration_sec)}})
    IN  IF title = "" THEN [calls |-> <<>>, ret |-> <<>>]
        ELSE Rank(SearchItems(artist, title, limit, answer1, answer2))

(***************************************************************************)
(* parse_lines_with_artist_inference                                       *)
(***************************************************************************)
\* The longest block of lines a request holds.
MaxLines == 3

\* Normalized lines (clean_and_normalize returns each of them unchanged).
ParseLines ==
    { "Miles Davis - So What 9:22",
      "All Blues 11:33",
      "Dear Limmertz\t4:34",
      "X - T\t3:20",
      "azymuth\t- Club Morrocco\t4:14",
      "Maracana",
      "Orlandivo* - Onde 2:10" }


InitParse ==
    /\ pc = "parse_lines"
    /\ lines \in SeqsUpTo(ParseLines, MaxLines) \ {<<>>}
    /\ last_artist = ""
    /\ results = <<>>
    /\ request = <<>>
    /\ calls = <<>>
    /\ ret = <<>>
    /\ locals = <<>>
    /\ feature_db = <<>>

\* One turn of the loop of parse_lines_with_artist_inference.
ParseLine ==
    /\ pc = "parse_lines"
    /\ Len(results) < Len(lines)
    /\ LET r == parse_artist_title_duration(lines[Len(results) + 1], last_artist) IN
        /\ last_artist' = (IF r.artist # "" THEN r.artist ELSE last_artist)
        /\ results' = Append(results, r)
    /\ UNCHANGED <<pc, lines, searchVars, handlerVars>>

\* The loop is over: results is returned.
ParseReturn ==
    /\ pc = "parse_lines"
    /\ Len(results) = Len(lines)
    /\ pc' = "parsed"
    /\ UNCHANGED <<parseVars, searchVars, handlerVars>>

NextParse == ParseLine \/ ParseReturn

SpecParse == InitParse /\ [][NextParse]_vars

(***************************************************************************)
(* C1                                                                      *)
(***************************************************************************)
\* The artist the parser finds on the line itself, no context given.
OwnArtist(line) == parse_artist_title_duration(line, "").artist

\* The artist of the nearest of the lines ls[1..j] that carries one, else "".
RECURSIVE NearestExplicit(_, _)
NearestExplicit(ls, j) ==
    IF j = 0 THEN ""
    ELSE IF OwnArtist(ls[j]) # "" THEN OwnArtist(ls[j])
    ELSE NearestExplicit(ls, j - 1)

MilesBlock == <<"Miles Davis - So What 9:22", "All Blues 11:33">>

\* C1: every parsed line that carries no artist of its own is returned with
\* the artist of the nearest preceding line that carried one ("" when there
\* is none), and the block "Miles Davis - So What 9:22", "All Blues 11:33"
\* gives ("Miles Davis", "All Blues", 693) for its second line.
C1_ArtistInference ==
    /\ \A i \in 1..Len(results) :
          OwnArtist(lines[i]) = ""
              => results[i].artist = NearestExplicit(lines, i - 1)
    /\ (lines = MilesBlock /\ Len(results) = 2)
          => results[2] = [artist |-> "Miles Davis", title |-> "All Blues",
                           duration |-> Some(693)]

\* C1 witness: a line without an artist was parsed after a line with one and
\* took that artist over.
C1_Witness ==
    /\ pc = "parsed"
    /\ Len(results) = 3
    /\ OwnArtist(lines[1]) # ""
    /\ OwnArtist(lines[2]) = ""
    /\ OwnArtist(lines[3]) = ""
    /\ results[3].artist = OwnArtist(lines[1])

(***************************************************************************)
(* search_track and search_tracks_multiple against the catalog             *)
(***************************************************************************)
SearchArtists == {"", "Miles Davis"}
SearchTitles == {"", "So What"}
SearchDurations == {None, Some(562), Some(574)}

\* The calls a caller may make: search_track(artist, title, duration_sec)
\* and search_tracks_multiple(artist, title, duration_sec, limit).
SearchRequests ==
    [op : {"search_track"}, artist : SearchArtists, title : SearchTitles,
     duration_sec : SearchDurations, limit : {10}]
    \cup
    [op : {"search_tracks_multiple"}, artist : SearchArtists,
     title : SearchTitles, duration_sec : SearchDurations, limit : {1, 10}]

\* What the catalog may answer to the structured query and then to the loose
\* one; the second answer is of no account when the first one has items.
CatalogAnswers(universe, limit) ==
    {a \in Answers(universe, limit) \X Answers(universe, limit) :
        a[1] # <<>> => a[2] = <<>>}

InitSearch ==
    /\ pc = "search"
    /\ request \in SearchRequests
    /\ calls = <<>>
    /\ ret = <<>>
    /\ lines = <<>>
    /\ last_artist = ""
    /\ results = <<>>
    /\ locals = <<>>
    /\ feature_db = <<>>

\* search_track runs, the catalog answering a.
SearchTrack ==
    /\ pc = "search"
    /\ request.op = "search_track"
    /\ \E a \in CatalogAnswers(SearchTracks, 10) :
        \E r \in {search_track(request.artist, request.title,
                               request.duration_sec, a[1], a[2])} :
            /\ calls' = r.calls
            /\ ret' = r.ret
    /\ pc' = "returned"
    /\ UNCHANGED <<request, parseVars, handlerVars>>

\* search_tracks_multiple runs, the catalog answering a.
SearchTracksMultiple ==
    /\ pc = "search"
    /\ request.op = "search_tracks_multiple"
    /\ \E a \in CatalogAnswers(SearchTracks, request.limit) :
        \E r \in {search_tracks_multiple(request.artist, request.title,
                                         request.duration_sec, request.limit,
                                         a[1], a[2])} :
            /\ calls' = r.calls
            /\ ret' = r.ret
    /\ pc' = "returned"
    /\ UNCHANGED <<request, parseVars, handlerVars>>

NextSearch == SearchTrack \/ SearchTracksMultiple

SpecSearch == InitSearch /\ [][NextSearch]_vars

(***************************************************************************)
(* C2, C3, C6, C7, C8                                                      *)
(***************************************************************************)
\* The candidates the search kept: the answer to its last query.
KeptItems == IF calls = <<>> THEN <<>> ELSE calls[Len(calls)].items

\* The kept candidates with the scores the search gives them.
KeptScored ==
    ScoredItems(KeptItems, request.artist, request.title, request.duration_sec)

\* C2: search_track returns a candidate whose score is the maximum over the
\* candidates the catalog returned when that maximum is >= 0.55, and returns
\* none when the maximum is below 0.55 (or there is no candidate); a
\* candidate with title similarity 1, artist similarity 1 and no duration
\* penalty scores exactly 1 and what is returned then scores 1 as well.
C2_SingleBest ==
    (pc = "returned" /\ request.op = "search_track") =>
        \E scored \in {KeptScored} :
            LET Ks == 1..Len(scored)
                IsMax(k) == \A j \in Ks : RLeq(scored[j].score, scored[k].score)
                Passes(k) == RLeq(R(55, 100), scored[k].score)
                Perfect(k) ==
                    /\ similarity(request.title, scored[k].cand.name) = One
                    /\ best_artist_similarity(request.artist,
                                              scored[k].cand.artists) = One
                    /\ DurPenalty(request.duration_sec,
                                  scored[k].cand.duration_ms) = Zero
            IN  /\ (\E k \in Ks : Passes(k)) =>
                       /\ ret # None
                       /\ \E k \in Ks : scored[k].cand = ret[1] /\ IsMax(k)
                /\ (\A k \in Ks : ~Passes(k)) => ret = None
                /\ \A k \in Ks : Perfect(k) =>
                       /\ scored[k].score = One
                       /\ ret # None
                       /\ \E j \in Ks : /\ scored[j].cand = ret[1]
                                       /\ scored[j].score = One

\* search_track was given a lower-scoring candidate first and the perfect one
\* after it, and returned the perfect one.
C2_Witness ==
    /\ pc = "returned"
    /\ request.op = "search_track"
    /\ request.duration_sec = Some(562)
    /\ Len(KeptItems) = 2
    /\ KeptItems[1].id = "t3"
    /\ ret # None
    /\ ret[1].id = "t1"

\* C3: search_tracks_multiple returns exactly the catalog candidates whose
\* score is >= 0.30, each with its score, in non-increasing score order, and
\* never more than limit entries.
C3_Ranked ==
    (pc = "returned" /\ request.op = "search_tracks_multiple") =>
        \E scored \in {KeptScored} :
            LET Good == {k \in 1..Len(scored) : RLeq(R(30, 100), scored[k].score)}
            IN  /\ {ret[k] : k \in 1..Len(ret)} = {scored[k] : k \in Good}
                /\ Len(ret) = Cardinality(Good)
                /\ \A k \in 1..(Len(ret) - 1) :
                       RLeq(ret[k + 1].score, ret[k].score)
                /\ Len(ret) <= request.limit

\* The catalog answered four candidates, the worst first; three are returned,
\* the best first.
C3_Witness ==
    /\ pc = "returned"
    /\ request.op = "search_tracks_multiple"
    /\ Len(KeptItems) = 4
    /\ KeptItems[1].id = "t4"
    /\ KeptItems[2].id = "t3"
    /\ Len(ret) = 3
    /\ ret[3].cand.id = "t3"
    /\ RLess(ret[3].score, ret[2].score)

\* C6 as stated: whenever the structured query returns nothing, the unscoped
\* query follows, for every entry with a title, whether or not an artist was
\* given.
C6_RetryAlways ==
    (pc = "returned" /\ request.title # "") =>
        /\ Len(calls) >= 1
        /\ calls[1].items = <<>> =>
               /\ Len(calls) = 2
               /\ calls[2].q = request.artist \o " " \o request.title

\* C6, amended: when the structured query returns nothing and an artist was
\* given, the unscoped query "<artist> <title>" is issued next, and its answer
\* is what is scored; with no artist the only query is track:"<title>", and no
\* retry follows an empty answer. No retry follows an answer with items.
C6_LooseRetry ==
    (pc = "returned" /\ request.title # "") =>
        /\ Len(calls) >= 1
        /\ calls[1].q = (IF request.artist # ""
                         THEN "track:\"" \o request.title \o "\" artist:\""
                                  \o request.artist \o "\""
                         ELSE "track:\"" \o request.title \o "\"")
        /\ IF calls[1].items = <<>> /\ request.artist # ""
           THEN /\ Len(calls) = 2
                /\ calls[2].q = request.artist \o " " \o request.title
                /\ calls[2].type = "track"
                /\ calls[2].limit = calls[1].limit
           ELSE Len(calls) = 1

\* The structured query came back empty, the loose one found the track.
C6_Witness ==
    /\ pc = "returned"
    /\ Len(calls) = 2
    /\ calls[1].items = <<>>
    /\ calls[2].q = "Miles Davis So What"
    /\ calls[2].items # <<>>
    /\ ret # <<>>

\* C7 (tracks): among candidates of equal score the one of higher popularity
\* is returned by search_track and listed first by search_tracks_multiple.
C7_PopularityBreaksTies ==
    (pc = "returned" /\ request.title # "") =>
        \E scored \in {KeptScored} :
            /\ (request.op = "search_track" /\ ret # None) =>
                   \A j, k \in 1..Len(scored) :
                       (scored[k].cand = ret[1]
                            /\ scored[j].score = scored[k].score)
                       => scored[j].cand.popularity <= ret[1].popularity
            /\ request.op = "search_tracks_multiple" =>
                   \A j, k \in 1..Len(ret) :
                       (j < k /\ ret[j].score = ret[k].score)
                       => ret[j].cand.popularity >= ret[k].cand.popularity

\* The duration penalty as C8 states it.
C8_Penalty(requested_seconds, candidate_ms) ==
    IF requested_seconds = None \/ candidate_ms = None THEN Zero
    ELSE IF candidate_ms[1] = 0 THEN Zero
    ELSE LET Of(diff) == IF diff <= 5 THEN Zero
                         ELSE RMin(R(1, 2), R(diff, 60))
         IN  Of(Abs(RoundHalfEven(candidate_ms[1], 1000) - requested_seconds[1]))

\* C8: every candidate's score is 0.6 * title_similarity
\* + 0.4 * artist_similarity - duration_penalty, the penalty being 0 when a
\* duration is unknown or the two differ by at most 5 seconds and
\* min(0.5, difference / 60) otherwise, so never more than 0.5.
C8_ScoreFormula ==
    (pc = "returned" /\ request.op = "search_tracks_multiple") =>
        \A k \in 1..Len(ret) :
            \E ts \in {similarity(request.title, ret[k].cand.name)},
               as \in {best_artist_similarity(request.artist, ret[k].cand.artists)},
               pen \in {C8_Penalty(request.duration_sec, ret[k].cand.duration_ms)} :
                /\ RLeq(pen, R(1, 2))
                /\ RLeq(Zero, pen)
                /\ ret[k].score[1] * (10 * pen[2] * ts[2] * as[2])
                       = ret[k].score[2] * ( 6 * ts[1] * as[2] * pen[2]
                                           + 4 * as[1] * ts[2] * pen[2]
                                           - 10 * pen[1] * ts[2] * as[2])

\* A candidate 38 seconds off is listed with the capped penalty: 1.0 - 0.5.
C8_Witness ==
    /\ pc = "returned"
    /\ request.op = "search_tracks_multiple"
    /\ request.duration_sec = Some(562)
    /\ request.artist = "Miles Davis"
    /\ \E k \in 1..Len(ret) :
          /\ ret[k].cand.duration_ms = Some(600000)
          /\ ret[k].score = R(1, 2)

(***************************************************************************)
(* Musical key helpers                                                     *)
(***************************************************************************)
\* PITCH_CLASS_MAP, from pitch class 0 on (the sharp and flat signs written
\* # and b)
PITCH_CLASS_MAP ==
    <<"C", "C#/Db", "D", "D#/Eb", "E", "F", "F#/Gb", "G", "G#/Ab", "A",
      "A#/Bb", "B">>

\* CAMELOT_MAP: (key, 1) from key 0 on, then (key, 0) from key 0 on
CamelotMajor ==
    <<"8B", "3B", "10B", "5B", "12B", "7B", "2B", "9B", "4B", "11B", "6B", "1B">>
\* The mutation of CamelotMinor used to test the bijection claim: A minor is
\* given the symbol of C major.
CamelotMinorShared ==
    <<"5A", "12A", "7A", "2A", "9A", "4A", "11A", "6A", "1A", "8B", "3A", "10A">>

CamelotMinor ==
    <<"5A", "12A", "7A", "2A", "9A", "4A", "11A", "6A", "1A", "8A", "3A", "10A">>

\* CAMELOT_MAP.get((key, mode), "")
CAMELOT_MAP(key, mode) ==
    IF key \in 0..11 /\ mode = 1 THEN CamelotMajor[key + 1]
    ELSE IF key \in 0..11 /\ mode = 0 THEN CamelotMinor[key + 1]
    ELSE ""

\* key_mode_to_camelot(key, mode), key and mode optional: <<camelot, full_name>>
key_mode_to_camelot(key, mode) ==
    IF key = None \/ mode = None THEN <<"", "">>
    ELSE IF key[1] < 0 \/ key[1] > 11 THEN <<"", "">>
    ELSE <<CAMELOT_MAP(key[1], mode[1]),
           PITCH_CLASS_MAP[key[1] + 1] \o " "
               \o (IF mode[1] = 1 THEN "maj" ELSE "min")>>

(***************************************************************************)
(* The Feature Service and get_reccobeats_features_for_spotify_ids         *)
(***************************************************************************)
\* An item of the "content" of an audio-features answer; tempo (a fraction),
\* key and mode are optional.
FeatureItem(href, id, tempo, key, mode) ==
    [href |-> href, id |-> id, tempo |-> tempo, key |-> key, mode |-> mode]

\* The item the service gives for the catalog track spid.
ItemFor(spid, tempo, key, mode) ==
    FeatureItem("https://open.spotify.com/track/" \o spid, "rb-" \o spid,
                tempo, key, mode)

\* features_by_id.get(tid, {})
NoFeatures == FeatureItem("", "", None, None, None)

\* chunk_list(seq, size)
chunk_list(seq, size) ==
    [c \in 1..((Len(seq) + size - 1) \div size) |->
        SubSeq(seq, (c - 1) * size + 1,
               IF c * size < Len(seq) THEN c * size ELSE Len(seq))]

\* The content the service answers for the ids of one call: the items it
\* holds, in the order asked (worked out by halves to keep the evaluation
\* shallow).
RECURSIVE Content(_, _)
Content(db, ids) ==
    IF ids = <<>> THEN <<>>
    ELSE IF Len(ids) = 1
    THEN (IF ids[1] \in DOMAIN db THEN <<db[ids[1]]>> ELSE <<>>)
    ELSE Content(db, SubSeq(ids, 1, Len(ids) \div 2))
         \o Content(db, SubSeq(ids, Len(ids) \div 2 + 1, Len(ids)))

\* the sp_id under which an item is filed (src/app.py 543-548)
SpotifyIdOf(item) ==
    LET Last(parts) == parts[Len(parts)]
        href == Chars(item.href)
    IN  IF Contains(href, Chars("open.spotify.com/track/"))
        THEN Str(Split(Last(Split(href, Chars("/track/"))), Chars("?"))[1])
        ELSE item.id

\* the loop `for item in data.get("content", [])`, the items filed in the
\* order of content (worked out by halves to keep the evaluation shallow)
RECURSIVE FileItems(_, _)
FileItems(features_by_sp_id, content) ==
    LET Filed(sp_id) ==
            IF sp_id # "" THEN (sp_id :> content[1]) @@ features_by_sp_id
            ELSE features_by_sp_id
    IN  IF content = <<>> THEN features_by_sp_id
        ELSE IF Len(content) = 1
        THEN The({Filed(sp_id) : sp_id \in {SpotifyIdOf(content[1])}})
        ELSE The({FileItems(first, SubSeq(content, Len(content) \div 2 + 1,
                                          Len(content))) :
                  first \in {FileItems(features_by_sp_id,
                                       SubSeq(content, 1, Len(content) \div 2))}})

\* One call of /v1/audio-features as logged: the ids asked, whether it went
\* through, and the content answered.
FeatureCall(ids, ok, content) ==
    [q |-> ids, type |-> "audio-features", ok |-> ok, items |-> content]

\* What may go wrong with the calls for n chunks: failed maps the chunks
\* whose call goes wrong to "error" (requests.get, raise_for_status or
\* resp.json() raises, caught at src/app.py 538-540) or to "malformed" (the
\* body is JSON of another shape than {"content": [objects]}, e.g. a list or
\* {"content": null}, on which the loop at 542-550 raises).
FeatureFailures(n) ==
    UNION {[D -> {"error", "malformed"}] : D \in SUBSET (1..n)}

\* The loop of get_reccobeats_features_for_spotify_ids from the c-th chunk
\* on: a call in error is skipped, a malformed answer raises out of the
\* function.
RECURSIVE FetchFrom(_, _, _, _, _, _)
FetchFrom(chunks, c, db, failed, made, features_by_sp_id) ==
    IF c > Len(chunks)
    THEN [calls |-> made, features_by_id |-> features_by_sp_id, raised |-> FALSE]
    ELSE IF c \notin DOMAIN failed
    THEN FetchFrom(chunks, c + 1, db, failed,
                   Append(made, FeatureCall(chunks[c], TRUE, Content(db, chunks[c]))),
                   FileItems(features_by_sp_id, Content(db, chunks[c])))
    ELSE IF failed[c] = "error"
    THEN FetchFrom(chunks, c + 1, db, failed,
                   Append(made, FeatureCall(chunks[c], FALSE, <<>>)),
                   features_by_sp_id)
    ELSE [calls |-> Append(made, FeatureCall(chunks[c], FALSE, <<>>)),
          features_by_id |-> <<>>, raised |-> TRUE]

\* get_reccobeats_features_for_spotify_ids: the calls made, the dict
\* returned (a function from the ids found to their items) and whether the
\* function raised instead of returning
get_reccobeats_features_for_spotify_ids(spotify_ids, db, failed) ==
    FetchFrom(chunk_list(spotify_ids, 40), 1, db, failed, <<>>, <<>>)

(***************************************************************************)
(* Feature enrichment of a ranked list (api_search_tracks 4223-4288,       *)
(* api_process 4495-4556, refresh_track 4713-4778)                         *)
(***************************************************************************)
\* `if bpm:` and `if camelot:` on optional values
NonZero(bpm) == bpm # None /\ bpm[1] # 0
NonEmpty(camelot) == camelot # None /\ camelot[1] # ""

\* The mutation of TrackWithFeatures used to test the reporting of the bpm:
\* the bpm is worked out from the tempo alone.
TempoAlone(scored, feat) ==
    LET Entry(bpm, camelot) ==
            [track_obj |-> scored.cand, base_score |-> scored.score,
             bpm |-> bpm, camelot |-> camelot,
             has_features |-> bpm # None /\ camelot # None]
    IN  IF feat.tempo = None THEN Entry(None, None)
        ELSE Entry(Some(RoundHalfEven(feat.tempo[1][1], feat.tempo[1][2])),
                   IF feat.key # None /\ feat.mode # None
                   THEN Some(key_mode_to_camelot(feat.key, feat.mode)[1])
                   ELSE None)

\* one entry of tracks_with_features, for a [cand, score] and its feat
TrackWithFeatures(scored, feat) ==
    LET Entry(bpm, camelot) ==
            [track_obj |-> scored.cand, base_score |-> scored.score,
             bpm |-> bpm, camelot |-> camelot,
             has_features |-> bpm # None /\ camelot # None]
    IN  IF feat.tempo # None /\ feat.key # None /\ feat.mode # None
        THEN Entry(Some(RoundHalfEven(feat.tempo[1][1], feat.tempo[1][2])),
                   Some(key_mode_to_camelot(feat.key, feat.mode)[1]))
        ELSE Entry(None, None)

\* tracks_with_features for the ranked list
RECURSIVE TracksWithFeatures(_, _)
TracksWithFeatures(ranked, features_by_id) ==
    IF ranked = <<>> THEN <<>>
    ELSE <<TrackWithFeatures(Head(ranked),
                             IF Head(ranked).cand.id \in DOMAIN features_by_id
                             THEN features_by_id[Head(ranked).cand.id]
                             ELSE NoFeatures)>>
         \o TracksWithFeatures(Tail(ranked), features_by_id)

\* bpm_counts.get(bpm, 0) and key_counts.get(camelot, 0) after the first loop
bpm_counts(twf, bpm) ==
    Cardinality({k \in 1..Len(twf) : NonZero(twf[k].bpm) /\ twf[k].bpm = bpm})
key_counts(twf, camelot) ==
    Cardinality({k \in 1..Len(twf) :
                    /\ twf[k].bpm # None
                    /\ NonEmpty(twf[k].camelot)
                    /\ twf[k].camelot = camelot})

\* consensus_bonus of an entry
ConsensusBonus(item, twf) ==
    LET Part(matches) ==
            IF matches > 1 THEN RMin(R(2, 10), R((matches - 1) * 5, 100))
            ELSE Zero
    IN  IF NonZero(item.bpm) /\ NonEmpty(item.camelot)
        THEN RAdd(Part(bpm_counts(twf, item.bpm)),
                  Part(key_counts(twf, item.camelot)))
        ELSE Zero

\* The mutation of EnhancedScore used to test the enriched order: the
\* bonuses are left out.
BaseScoreOnly(item, twf) == item.base_score

\* enhanced_score of an entry
EnhancedScore(item, twf) ==
    RAdd(RAdd(item.base_score, IF item.has_features THEN R(3, 10) ELSE Zero),
         ConsensusBonus(item, twf))

\* enhanced_results before its sort, from the k-th entry on
RECURSIVE EnhancedFrom(_, _)
EnhancedFrom(twf, k) ==
    IF k > Len(twf) THEN <<>>
    ELSE <<[track_obj |-> twf[k].track_obj,
            score |-> EnhancedScore(twf[k], twf),
            bpm |-> twf[k].bpm, camelot |-> twf[k].camelot]>>
         \o EnhancedFrom(twf, k + 1)

\* enhanced_results after enhanced_results.sort(key=score, reverse=True)
EnhancedResults(ranked, features_by_id) ==
    The({SortDesc(enhanced) :
         enhanced \in {The({EnhancedFrom(twf, 1) :
                            twf \in {TracksWithFeatures(ranked, features_by_id)}})}})

\* round(x, 2) of a float near the fraction x, in hundredths: the nearest
\* hundredth; when the fraction lies midway the float lies on either side.
Round2(x) ==
    LET q == (100 * x[1]) \div x[2]
        r == (100 * x[1]) % x[2]
    IN  IF 2 * r < x[2] THEN {R(q, 100)}
        ELSE IF 2 * r > x[2] THEN {R(q + 1, 100)}
        ELSE {R(q, 100), R(q + 1, 100)}

\* The formatted_results the handler may return for enhanced_results from the
\* k-th on (of each result: id, name, popularity, duration_ms, bpm, camelot
\* and score).
RECURSIVE FormattedFrom(_, _)
FormattedFrom(enhanced, k) ==
    IF k > Len(enhanced) THEN {<<>>}
    ELSE {<<[id |-> enhanced[k].track_obj.id,
             name |-> enhanced[k].track_obj.name,
             popularity |-> enhanced[k].track_obj.popularity,
             duration_ms |-> enhanced[k].track_obj.duration_ms,
             bpm |-> enhanced[k].bpm, camelot |-> enhanced[k].camelot,
             score |-> score]>> \o rest :
          score \in Round2(enhanced[k].score),
          rest \in FormattedFrom(enhanced, k + 1)}

\* [track_obj["id"] for track_obj, _ in results]
RECURSIVE TrackIds(_)
TrackIds(ranked) ==
    IF ranked = <<>> THEN <<>>
    ELSE <<Head(ranked).cand.id>> \o TrackIds(Tail(ranked))

\* The ranked search, the feature fetch and the enrichment that
\* api_search_tracks and refresh_track (search_mode) share: the calls made,
\* the local variables and the responses the handler may give.
RankedResponse(artist, title, duration_sec, answer1, answer2, db, failed) ==
    LET Enriched(found, fetched, enhanced) ==
            [calls |-> found.calls \o fetched.calls,
             locals |-> [results |-> found.ret,
                         features_by_id |-> fetched.features_by_id,
                         enhanced_results |-> enhanced],
             responses |-> {[status |-> 200, results |-> f, error |-> None] :
                            f \in FormattedFrom(enhanced, 1)}]
        Failed(made) ==
            [calls |-> made, locals |-> <<>>,
             responses |-> {[status |-> 500, results |-> <<>>,
                             error |-> Some("audio-features")]}]
        Fetched(found, fetched) ==
            The({Enriched(found, fetched, enhanced) :
                 enhanced \in {EnhancedResults(found.ret, fetched.features_by_id)}})
        Found(found) ==
            IF found.ret = <<>>
            THEN [calls |-> found.calls,
                  locals |-> [results |-> <<>>],
                  responses |-> {[status |-> 200, results |-> <<>>,
                                  error |-> None]}]
            ELSE The({IF fetched.raised
                      THEN Failed(found.calls \o fetched.calls)
                      ELSE Fetched(found, fetched) :
                      fetched \in {get_reccobeats_features_for_spotify_ids(
                                       TrackIds(found.ret), db, failed)}})
    IN  The({Found(found) :
             found \in {search_tracks_multiple(artist, title, duration_sec, 10,
                                               answer1, answer2)}})

\* The mutation of Stripped used to test the answer to an empty title: the
\* field is taken as sent.
Unstripped(s) == s

\* (data.get(field) or "").strip()
Stripped(s) == Str(Strip(Chars(s)))

\* api_search_tracks for the request body data
api_search_tracks(data, answer1, answer2, db, failed) ==
    IF Stripped(data.title) = ""
    THEN [calls |-> <<>>, locals |-> <<>>,
          responses |-> {[status |-> 400, error |-> "Track title required"]}]
    ELSE RankedResponse(Stripped(data.artist), Stripped(data.title),
                        data.duration_sec, answer1, answer2, db, failed)

\* refresh_track for a request body with search_mode set and neither
\* selected_track_id nor spotify_id
refresh_track_search(data, answer1, answer2, db, failed) ==
    IF Stripped(data.title) = ""
    THEN [calls |-> <<>>, locals |-> <<>>,
          responses |-> {[status |-> 400, error |-> "Missing title for search"]}]
    ELSE RankedResponse(Stripped(data.artists), Stripped(data.title), None,
                        answer1, answer2, db, failed)

(***************************************************************************)
(* api_search_tracks and refresh_track (search_mode) against the catalog   *)
(* and the Feature Service                                                 *)
(***************************************************************************)
\* Six pressings of one recording, in the order the catalog lists them.
RankedListing ==
    << Track("p1", "So What", <<"Miles Davis">>, Some(562000), 50),
       Track("p2", "So What", <<"Miles Davis">>, Some(562000), 51),
       Track("p3", "So What", <<"Miles Davis">>, Some(570000), 52),
       Track("p4", "So What", <<"Miles Davis">>, Some(562000), 53),
       Track("p5", "So What", <<"Miles Davis">>, Some(600000), 54),
       Track("p6", "So What", <<"Miles Davis">>, Some(562000), 55) >>

\* seq restricted to the positions in keep, from the k-th on
RECURSIVE RestrictFrom(_, _, _)
RestrictFrom(seq, keep, k) ==
    IF k > Len(seq) THEN <<>>
    ELSE (IF k \in keep THEN <<seq[k]>> ELSE <<>>) \o RestrictFrom(seq, keep, k + 1)

\* What the catalog may answer from a listing: some of its tracks, in the
\* order of the listing, at most limit of them.
ListingAnswers(listing, limit) ==
    {RestrictFrom(listing, keep, 1) :
        keep \in {k \in SUBSET (1..Len(listing)) : Cardinality(k) <= limit}}

\* the answers to the structured query and to the loose one
RankedCatalogAnswers ==
    {a \in ListingAnswers(RankedListing, 10) \X ListingAnswers(RankedListing, 10) :
        a[1] # <<>> => a[2] = <<>>}

\* What the Feature Service may hold: the six pressings alike; or two alike,
\* one in another tempo and key, one unknown, one with a tempo only, one in
\* the second tempo and a third key; or two with an undetected key (-1), two
\* with a tempo that rounds to 0, one complete, and one without href, filed
\* under its id.
DbAgree ==
    [id \in {"p1", "p2", "p3", "p4", "p5", "p6"} |->
        ItemFor(id, Some(R(120, 1)), Some(5), Some(1))]
DbMixed ==
    ("p1" :> ItemFor("p1", Some(R(120, 1)), Some(5), Some(1)))
    @@ ("p2" :> ItemFor("p2", Some(R(120, 1)), Some(5), Some(1)))
    @@ ("p3" :> ItemFor("p3", Some(R(195, 2)), Some(2), Some(0)))
    @@ ("p5" :> ItemFor("p5", Some(R(120, 1)), None, None))
    @@ ("p6" :> ItemFor("p6", Some(R(491, 5)), Some(2), Some(1)))
DbDegenerate ==
    ("p1" :> ItemFor("p1", Some(R(120, 1)), Some(-1), Some(1)))
    @@ ("p2" :> ItemFor("p2", Some(R(120, 1)), Some(-1), Some(1)))
    @@ ("p3" :> ItemFor("p3", Some(R(1, 5)), Some(5), Some(1)))
    @@ ("p4" :> ItemFor("p4", Some(R(1, 5)), Some(5), Some(1)))
    @@ ("p5" :> ItemFor("p5", Some(R(120, 1)), Some(5), Some(1)))
    @@ ("p6" :> FeatureItem("", "p6", Some(R(120, 1)), Some(5), Some(1)))
FeatureDbs == {DbAgree, DbMixed, DbDegenerate}

\* The request bodies sent: /api/search_tracks with artist, title and
\* duration_sec, /api/refresh_track with artists, title and search_mode.
RankedRequests ==
    {[op |-> "api_search_tracks",
      data |-> [artist |-> "Miles Davis", title |-> title,
                duration_sec |-> duration_sec]] :
        title \in {"So What", " "}, duration_sec \in {None, Some(562)}}
    \cup
    {[op |-> "refresh_track",
      data |-> [artists |-> "Miles Davis ", title |-> title,
                search_mode |-> TRUE, spotify_id |-> None,
                selected_track_id |-> None]] :
        title \in {"So What", ""}}

InitRanked ==
    /\ pc = "request"
    /\ request \in RankedRequests
    /\ feature_db \in FeatureDbs
    /\ calls = <<>>
    /\ ret = <<>>
    /\ locals = <<>>
    /\ lines = <<>>
    /\ last_artist = ""
    /\ results = <<>>

\* The handler h has run: its calls, its local variables, its response.
Responded(h) ==
    /\ calls' = h.calls
    /\ locals' = h.locals
    /\ ret' \in h.responses
    /\ pc' = "responded"
    /\ UNCHANGED <<request, feature_db, parseVars>>

\* POST /api/search_tracks, the catalog answering a and the feature calls in
\* failed raising.
ApiSearchTracks ==
    /\ pc = "request"
    /\ request.op = "api_search_tracks"
    /\ \E a \in RankedCatalogAnswers, failed \in FeatureFailures(1) :
        \E h \in {api_search_tracks(request.data, a[1], a[2], feature_db, failed)} :
            Responded(h)

\* POST /api/refresh_track with search_mode
RefreshTrackSearch ==
    /\ pc = "request"
    /\ request.op = "refresh_track"
    /\ request.data.search_mode
    /\ request.data.selected_track_id = None
    /\ request.data.spotify_id = None
    /\ \E a \in RankedCatalogAnswers, failed \in FeatureFailures(1) :
        \E h \in {refresh_track_search(request.data, a[1], a[2], feature_db, failed)} :
            Responded(h)

NextRanked == ApiSearchTracks \/ RefreshTrackSearch

SpecRanked == InitRanked /\ [][NextRanked]_vars

(***************************************************************************)
(* C9, C10                                                                 *)
(***************************************************************************)
\* The base score search_tracks_multiple gave the track id.
BaseScoreOf(ranked, id) ==
    ranked[CHOOSE j \in 1..Len(ranked) : ranked[j].cand.id = id].score

\* min(0.2, 0.05 * (n - 1)) for n candidates sharing a value, 0 for none
SharePart(n) == IF n > 1 THEN RMin(R(2, 10), R(5 * (n - 1), 100)) ELSE Zero

\* The bonus C9 states for the k-th result of listed, a list of results with
\* their bpm and camelot: 0.3 when it has both, plus the share of its rounded
\* BPM, plus the share of its Camelot symbol (an empty symbol is shared with
\* nobody).
C9_ClaimedBonus(listed, k) ==
    LET n_bpm == Cardinality({j \in 1..Len(listed) : listed[j].bpm = listed[k].bpm})
        n_key == Cardinality({j \in 1..Len(listed) :
                                 /\ listed[j].camelot = listed[k].camelot
                                 /\ listed[k].camelot[1] # ""})
    IN  IF listed[k].bpm # None /\ listed[k].camelot # None
        THEN RAdd(R(3, 10), RAdd(SharePart(n_bpm), SharePart(n_key)))
        ELSE Zero

\* C9: for every candidate of a ranked set the bonus added to its base score
\* is 0.3 if it has both tempo and key, plus min(0.2, 0.05 * (n_bpm - 1)),
\* plus min(0.2, 0.05 * (n_key - 1)), and lies between 0 and 0.7.
C9_BonusFormula ==
    (pc = "responded" /\ ret.status = 200) =>
        \A k \in 1..Len(ret.results) :
            \E bonus \in {RSub(locals.enhanced_results[k].score,
                               BaseScoreOf(locals.results, ret.results[k].id))} :
                /\ bonus = C9_ClaimedBonus(ret.results, k)
                /\ RLeq(Zero, bonus)
                /\ RLeq(bonus, R(7, 10))

\* The enhanced score of the k-th result of listed as the handlers work it
\* out from the bpm and camelot they report: base score, 0.3 when bpm and
\* camelot are both set, and, when the bpm is not 0 and the camelot not
\* empty, the shares of the bpm and of the camelot.
C10_Enhanced(ranked, listed, k) ==
    LET n_bpm == Cardinality({j \in 1..Len(listed) :
                                 listed[j].bpm = listed[k].bpm})
        n_key == Cardinality({j \in 1..Len(listed) :
                                 listed[j].camelot = listed[k].camelot})
    IN  RAdd(BaseScoreOf(ranked, listed[k].id),
             RAdd(IF listed[k].bpm # None /\ listed[k].camelot # None
                  THEN R(3, 10) ELSE Zero,
                  IF NonZero(listed[k].bpm) /\ NonEmpty(listed[k].camelot)
                  THEN RAdd(SharePart(n_bpm), SharePart(n_key)) ELSE Zero))

\* C10: the list api_search_tracks and refresh_track (search_mode) return is
\* a permutation of the candidates search_tracks_multiple returned, none
\* added or dropped, in non-increasing order of enhanced_score = base score
\* + presence bonus + consensus bonus; the score shown is that score to two
\* decimals.
C10_EnrichedOrder ==
    (pc = "responded" /\ ret.status = 200) =>
        /\ Len(ret.results) = Len(locals.results)
        /\ {ret.results[k].id : k \in 1..Len(ret.results)}
               = {locals.results[k].cand.id : k \in 1..Len(locals.results)}
        /\ Cardinality({ret.results[k].id : k \in 1..Len(ret.results)})
               = Len(ret.results)
        /\ \A k \in 1..Len(ret.results) :
               \E score \in {C10_Enhanced(locals.results, ret.results, k)} :
                   /\ ret.results[k].score \in Round2(score)
                   /\ k > 1 =>
                          RLeq(score,
                               C10_Enhanced(locals.results, ret.results, k - 1))

\* Six candidates came ranked by base score; in the enriched list p3, of a
\* lower base score than p4 but with features, comes before p4, and the list
\* ends with a candidate without features.
C10_Witness ==
    /\ pc = "responded"
    /\ ret.status = 200
    /\ feature_db = DbMixed
    /\ request.op = "api_search_tracks"
    /\ request.data.duration_sec = Some(562)
    /\ Len(ret.results) = 6
    /\ locals.results[3].cand.id = "p4"
    /\ locals.results[5].cand.id = "p3"
    /\ ret.results[4].id = "p3"
    /\ ret.results[5].id = "p4"
    /\ ret.results[6].bpm = None
    /\ RLess(ret.results[6].score, ret.results[1].score)

(***************************************************************************)
(* api_process, tracks mode                                                *)
(***************************************************************************)
\* parse_lines_with_artist_inference as one call: the results for the lines
\* of given from the k-th on, carried being last_artist
RECURSIVE ParsedFrom(_, _, _)
ParsedFrom(given, k, carried) ==
    IF k > Len(given) THEN <<>>
    ELSE The({<<r>> \o ParsedFrom(given, k + 1,
                                  IF r.artist # "" THEN r.artist ELSE carried) :
              r \in {parse_artist_title_duration(given[k], carried)}})

\* The mutation of parse_lines_with_artist_inference used to test that the
\* whole block is parsed before the first search: the first line only.
FirstLineOnly(given) == ParsedFrom(SubSeq(given, 1, 1), 1, "")

parse_lines_with_artist_inference(given) == ParsedFrom(given, 1, "")

\* The mutation of BestTrack used to test the choice: the last of the list.
LastTrack(enhanced) == enhanced[Len(enhanced)].track_obj

\* best_track = enhanced_results[0]["track_obj"]
BestTrack(enhanced) == enhanced[1].track_obj

\* track_entries: for each entry of all_search_results the best track of its
\* enriched list (src/app.py 4495-4559)
RECURSIVE TrackEntries(_, _)
TrackEntries(all_search_results, all_features_by_id) ==
    IF all_search_results = <<>> THEN <<>>
    ELSE <<[artist |-> Head(all_search_results).artist,
            title |-> Head(all_search_results).title,
            dur |-> Head(all_search_results).dur,
            track |-> BestTrack(EnhancedResults(Head(all_search_results).results,
                                                all_features_by_id))]>>
         \o TrackEntries(Tail(all_search_results), all_features_by_id)

\* all_track_ids
RECURSIVE AllTrackIds(_)
AllTrackIds(all_search_results) ==
    IF all_search_results = <<>> THEN <<>>
    ELSE TrackIds(Head(all_search_results).results)
         \o AllTrackIds(Tail(all_search_results))

\* [t[3]["id"] for t in track_entries if t[3].get("id")]
RECURSIVE EntryIds(_)
EntryIds(track_entries) ==
    IF track_entries = <<>> THEN <<>>
    ELSE (IF Head(track_entries).track.id # ""
          THEN <<Head(track_entries).track.id>> ELSE <<>>)
         \o EntryIds(Tail(track_entries))

\* One of the items (src/app.py 4577-4656) for the track full with the
\* features feat; the genre and release-year lookups and the fields energy,
\* valence, danceability, acousticness, speechiness, genres, release_year,
\* artists, spotify_url, stars and notes are left out.
Item(idx, full, feat) ==
    LET Of(bpm, key) ==
            [id |-> full.id, index |-> idx, name |-> full.name,
             bpm |-> bpm,
             camelot |-> IF key = None THEN None ELSE Some(key[1]),
             key_name |-> IF key = None THEN None ELSE Some(key[2]),
             popularity |-> full.popularity, duration_ms |-> full.duration_ms]
    IN  IF feat.tempo # None /\ feat.key # None /\ feat.mode # None
        THEN Of(Some(RoundHalfEven(feat.tempo[1][1], feat.tempo[1][2])),
                key_mode_to_camelot(feat.key, feat.mode))
        ELSE Of(None, None)

\* The mutation of ItemsFrom used to test the items returned: none.
NoItems(track_entries, idx, features_by_id) == <<>>

\* items, from the idx-th entry of track_entries on
RECURSIVE ItemsFrom(_, _, _)
ItemsFrom(track_entries, idx, features_by_id) ==
    IF idx > Len(track_entries) THEN <<>>
    ELSE (IF track_entries[idx].track.id = "" THEN <<>>
          ELSE <<Item(idx, track_entries[idx].track,
                      IF track_entries[idx].track.id \in DOMAIN features_by_id
                      THEN features_by_id[track_entries[idx].track.id]
                      ELSE NoFeatures)>>)
         \o ItemsFrom(track_entries, idx + 1, features_by_id)

\* Three pressings of one recording, in the order the catalog lists them.
ProcessListing ==
    << Track("u1", "So What", <<"Miles Davis">>, Some(562000), 60),
       Track("u2", "So What", <<"Miles Davis">>, Some(574000), 40),
       Track("u3", "So What", <<"Miles Davis">>, Some(600000), 20) >>

ProcessCatalogAnswers ==
    {a \in ListingAnswers(ProcessListing, 10) \X ListingAnswers(ProcessListing, 10) :
        a[1] # <<>> => a[2] = <<>>}

\* The Feature Service knows the second and third pressing only, or all.
DbLater ==
    [id \in {"u2", "u3"} |-> ItemFor(id, Some(R(120, 1)), Some(5), Some(1))]
DbAll ==
    [id \in {"u1", "u2", "u3"} |-> ItemFor(id, Some(R(120, 1)), Some(5), Some(1))]

\* The blocks pasted, as the lines of raw: titles with and without artist
\* and duration, dividers, numbered lines.
ProcessBlocks ==
    { <<>>,
      <<"----------">>,
      <<"__ __", "----------">>,
      <<"Miles Davis - So What 9:22">>,
      <<"So What">>,
      <<"1. Miles Davis - So What 9:22", "----------", "So What">>,
      <<"Miles Davis - So What 9:22", "A2 All Blues 11:33">>,
      <<"All Blues 11:33", "Miles Davis - So What 9:22">> }

\* POST /api/process with mode "tracks" and the lines of raw.
InitProcess ==
    /\ pc = "request"
    /\ request \in {[op |-> "api_process", mode |-> "tracks",
                     raw |-> [k \in 1..Len(b) |-> Chars(b[k])]] :
                        b \in ProcessBlocks}
    /\ feature_db \in {DbLater, DbAll}
    /\ calls = <<>>
    /\ ret = <<>>
    /\ locals = <<>>
    /\ lines = <<>>
    /\ last_artist = ""
    /\ results = <<>>

\* The response of api_process in tracks mode with these items.
ProcessOk(items) ==
    [status |-> 200, mode |-> "tracks", items |-> items, error |-> None]

\* The response of the handler at `except Exception` (4660-4662) to an
\* exception raised by the call named.
ProcessFailed(raised_by) ==
    [status |-> 500, mode |-> None, items |-> <<>>, error |-> Some(raised_by)]

\* A call of the catalog that raised, as logged.
Raised(call, api) == [call EXCEPT !.type = api \o " raised"]

\* raw is cleaned; `if not cleaned_lines` returns (4332-4336).
ProcessClean ==
    /\ pc = "request"
    /\ \E cleaned_lines \in {clean_and_normalize(request.raw)} :
        /\ locals' = [cleaned_lines |-> cleaned_lines]
        /\ IF cleaned_lines = <<>>
           THEN /\ ret' = [status |-> 200, mode |-> request.mode, items |-> <<>>,
                           error |-> None]
                /\ pc' = "responded"
           ELSE /\ pc' = "cleaned"
                /\ UNCHANGED ret
    /\ UNCHANGED <<request, calls, feature_db, parseVars>>

\* The lines are parsed (4472-4477); found_at records, for each entry of
\* all_search_results, the line it was found for.
ProcessParse ==
    /\ pc = "cleaned"
    /\ locals' = [cleaned_lines |-> locals.cleaned_lines,
                  parsed_lines |->
                      parse_lines_with_artist_inference(locals.cleaned_lines),
                  all_search_results |-> <<>>,
                  found_at |-> <<>>,
                  searched |-> 0]
    /\ pc' = "search"
    /\ UNCHANGED <<request, calls, ret, feature_db, parseVars>>

\* One turn of the loop over parsed_lines (4478-4481): the catalog answers a,
\* or its n-th call for the line raises and the handler answers 500.
ProcessSearchLine ==
    /\ pc = "search"
    /\ locals.searched < Len(locals.parsed_lines)
    /\ \E line \in {locals.parsed_lines[locals.searched + 1]} :
        \/ \E a \in ProcessCatalogAnswers :
            \E found \in {search_tracks_multiple(line.artist, line.title,
                                                 line.duration, 10, a[1], a[2])} :
                /\ calls' = calls \o found.calls
                /\ locals' = [locals EXCEPT
                       !.searched = @ + 1,
                       !.all_search_results =
                           IF found.ret = <<>> THEN @
                           ELSE Append(@, [artist |-> line.artist,
                                           title |-> line.title,
                                           dur |-> line.duration,
                                           results |-> found.ret]),
                       !.found_at =
                           IF found.ret = <<>> THEN @
                           ELSE Append(@, locals.searched + 1)]
                /\ UNCHANGED <<pc, ret>>
        \/ \E made \in {search_tracks_multiple(line.artist, line.title,
                                               line.duration, 10, <<>>, <<>>).calls} :
            \E n \in 1..Len(made) :
                /\ calls' = calls \o SubSeq(made, 1, n - 1) \o <<Raised(made[n], "sp.search")>>
                /\ ret' = ProcessFailed("sp.search")
                /\ pc' = "responded"
                /\ UNCHANGED locals
    /\ UNCHANGED <<request, feature_db, parseVars>>

\* After the loop: nothing found returns; else the features of all the
\* candidates are fetched and the best track of each line is picked
\* (4483-4562).
ProcessSelect ==
    /\ pc = "search"
    /\ locals.searched = Len(locals.parsed_lines)
    /\ IF locals.all_search_results = <<>>
       THEN /\ ret' = ProcessOk(<<>>)
            /\ pc' = "responded"
            /\ UNCHANGED <<calls, locals>>
       ELSE \E failed \in FeatureFailures(1) :
            \E fetched \in {get_reccobeats_features_for_spotify_ids(
                                AllTrackIds(locals.all_search_results),
                                feature_db, failed)} :
                /\ calls' = calls \o fetched.calls
                /\ IF fetched.raised
                   THEN /\ ret' = ProcessFailed("audio-features")
                        /\ pc' = "responded"
                        /\ UNCHANGED locals
                   ELSE /\ locals' = [cleaned_lines |-> locals.cleaned_lines,
                                      parsed_lines |-> locals.parsed_lines,
                                      all_search_results |-> locals.all_search_results,
                                      found_at |-> locals.found_at,
                                      all_features_by_id |-> fetched.features_by_id,
                                      track_entries |->
                                          TrackEntries(locals.all_search_results,
                                                       fetched.features_by_id)]
                        /\ pc' = "selected"
                        /\ UNCHANGED ret
    /\ UNCHANGED <<request, feature_db, parseVars>>

\* The selected tracks are fetched in full (sp.tracks may raise), their
\* features fetched again and the items built and returned (4564-4658).
ProcessFinish ==
    /\ pc = "selected"
    /\ \E track_ids \in {EntryIds(locals.track_entries)} :
       \E fetch \in {[c \in 1..Len(chunk_list(track_ids, 50)) |->
                         [q |-> chunk_list(track_ids, 50)[c], type |-> "tracks"]]} :
        \/ \E failed \in FeatureFailures(1) :
            \E fetched \in {get_reccobeats_features_for_spotify_ids(
                                track_ids, feature_db, failed)} :
                /\ calls' = calls \o fetch \o fetched.calls
                /\ ret' = IF fetched.raised
                          THEN ProcessFailed("audio-features")
                          ELSE ProcessOk(ItemsFrom(locals.track_entries, 1,
                                                   fetched.features_by_id))
        \/ /\ calls' = calls \o <<Raised(fetch[1], "sp.tracks")>>
           /\ ret' = ProcessFailed("sp.tracks")
    /\ pc' = "responded"
    /\ UNCHANGED <<request, locals, feature_db, parseVars>>

NextProcess ==
    \/ ProcessClean
    \/ ProcessParse
    \/ ProcessSearchLine
    \/ ProcessSelect
    \/ ProcessFinish

SpecProcess == InitProcess /\ [][NextProcess]_vars

(***************************************************************************)
(* C4, C5                                                                  *)
(***************************************************************************)
\* The ranked candidates of the line the k-th returned item comes from.
RankedFor(k) == locals.all_search_results[ret.items[k].index].results

\* C4: every track in the items api_process returns in tracks mode has a
\* base score of at least 0.55; candidates scoring in [0.30, 0.55) are never
\* accepted automatically.
C4_NoAcceptBelowBar ==
    (pc = "responded" /\ ret.status = 200) =>
        \A k \in 1..Len(ret.items) :
            RLeq(R(55, 100), BaseScoreOf(RankedFor(k), ret.items[k].id))

\* The only candidate of the line "Miles Davis - So What 9:22" runs 10:00:
\* its base score is 0.5 and it is the track returned.
C4_Witness ==
    /\ pc = "responded"
    /\ ret.status = 200
    /\ Len(ret.items) = 1
    /\ ret.items[1].id = "u3"
    /\ Len(RankedFor(1)) = 1
    /\ RankedFor(1)[1].score = R(1, 2)

C5_Listed(ranked, features_by_id) ==
    [j \in 1..Len(ranked) |->
        LET twf == TrackWithFeatures(ranked[j],
                       IF ranked[j].cand.id \in DOMAIN features_by_id
                       THEN features_by_id[ranked[j].cand.id] ELSE NoFeatures)
        IN  [id |-> ranked[j].cand.id, bpm |-> twf.bpm, camelot |-> twf.camelot]]

C12_CatalogFailureContained ==
    (/\ pc = "responded"
     /\ \E k \in 1..Len(calls) : calls[k].type = "sp.search raised")
        => (ret.status = 200 /\ ret.error = None)

\* The first line was resolved, the search for the second raised: the
\* answer is 500 with no items.
C12_Witness ==
    /\ pc = "responded"
    /\ ret.status = 500
    /\ ret.items = <<>>
    /\ calls[Len(calls)].type = "sp.search raised"
    /\ Len(locals.parsed_lines) = 2
    /\ Len(locals.all_search_results) = 1

\* A line made only of dashes, underscores, box-drawing characters or white
\* space.
NoiseLine(line) ==
    \A i \in 1..Len(line) :
        line[i] \in {"-", "_", EnDash, EmDash, BoxDrawing} \cup WS

\* The normalized lines of raw, from the k-th on, that are not empty.
RECURSIVE KeptFrom(_, _)
KeptFrom(raw, k) ==
    IF k > Len(raw) THEN <<>>
    ELSE (IF Normalize(raw[k]) = <<>> THEN <<>> ELSE <<Str(Normalize(raw[k]))>>)
         \o KeptFrom(raw, k + 1)

\* The context artist of the j-th parsed line: the artist of the nearest
\* earlier parsed line that has one.
ContextAt(parsed, j) ==
    IF \E i \in 1..(j - 1) : parsed[i].artist # ""
    THEN parsed[SetMax({i \in 1..(j - 1) : parsed[i].artist # ""})].artist
    ELSE ""

\* C13: a raw line that normalizes to the empty string, so any line of
\* dashes, underscores, box-drawing characters and white space, is dropped
\* by clean_and_normalize: it reaches neither the parser nor the resolver
\* and leaves the carried artist alone; a block of such lines only gets an
\* empty list of items, no error and no external call.
C13_NoiseDropped ==
    /\ \A k \in 1..Len(request.raw) :
           NoiseLine(request.raw[k]) => Normalize(request.raw[k]) = <<>>
    /\ pc # "request" =>
           /\ locals.cleaned_lines = KeptFrom(request.raw, 1)
           /\ Len(locals.cleaned_lines)
                  <= Cardinality({k \in 1..Len(request.raw) :
                                     ~NoiseLine(request.raw[k])})
    /\ "parsed_lines" \in DOMAIN locals =>
           /\ Len(locals.parsed_lines) = Len(locals.cleaned_lines)
           /\ \A j \in 1..Len(locals.parsed_lines) :
                  locals.parsed_lines[j]
                      = parse_artist_title_duration(
                            locals.cleaned_lines[j],
                            ContextAt(locals.parsed_lines, j))
    /\ (\A k \in 1..Len(request.raw) : NoiseLine(request.raw[k])) =>
           /\ calls = <<>>
           /\ pc = "responded" =>
                  ret = [status |-> 200, mode |-> "tracks", items |-> <<>>,
                         error |-> None]

\* A divider between a line with an artist and a line without: two lines
\* are parsed, the second with the artist of the first, and both resolved.
C13_Witness ==
    /\ pc = "responded"
    /\ Len(request.raw) = 3
    /\ NoiseLine(request.raw[2])
    /\ locals.cleaned_lines = <<"Miles Davis - So What 9:22", "So What">>
    /\ locals.parsed_lines[2].artist = "Miles Davis"
    /\ ret.status = 200
    /\ Len(ret.items) = 2

\* C14: in tracks mode a line for which the resolver returns no candidate
\* is dropped without failing the request or the other lines, and the items
\* come in the order of the lines they are from, at most one per line.
C14_DroppedInOrder ==
    pc = "responded" =>
        /\ ret.status = 500 =>
               \/ calls[Len(calls)].type \in {"sp.search raised", "sp.tracks raised"}
               \/ /\ calls[Len(calls)].type = "audio-features"
                  /\ ~calls[Len(calls)].ok
        /\ ret.status = 200 =>
               IF "track_entries" \in DOMAIN locals
               THEN /\ Len(ret.items) = Len(locals.found_at)
                    /\ \A k \in 1..Len(ret.items) :
                           /\ ret.items[k].index = k
                           /\ \E j \in 1..Len(RankedFor(k)) :
                                  RankedFor(k)[j].cand.id = ret.items[k].id
                           /\ locals.all_search_results[k].title
                                  = locals.parsed_lines[locals.found_at[k]].title
                           /\ locals.found_at[k] \in 1..Len(locals.parsed_lines)
                           /\ k > 1 => locals.found_at[k - 1] < locals.found_at[k]
               ELSE ret.items = <<>>

\* Nothing was found for the first of two lines; the item returned is that
\* of the second.
C14_Witness ==
    /\ pc = "responded"
    /\ ret.status = 200
    /\ "track_entries" \in DOMAIN locals
    /\ Len(locals.parsed_lines) = 2
    /\ locals.found_at = <<2>>
    /\ Len(ret.items) = 1
    /\ ret.items[1].index = 1

\* C15 as stated: no catalog query for the next line is issued before the
\* features of the line before it have been fetched.
C15_LineByLine ==
    [][(/\ pc = "search"
        /\ locals.found_at # <<>>
        /\ Len(calls') > Len(calls)
        /\ calls'[Len(calls) + 1].type \in {"track", "sp.search raised"})
          => \E k \in 1..Len(calls) : calls[k].type = "audio-features"]_vars

\* C15, amended: in tracks mode the block is handled in phases, each one
\* pass over the lines: every line is normalized and parsed before the first
\* external call, and every catalog search comes before the first feature
\* call.
C15_Phases ==
    /\ calls # <<>> =>
           /\ "parsed_lines" \in DOMAIN locals
           /\ Len(locals.parsed_lines) = Len(locals.cleaned_lines)
           /\ locals.cleaned_lines = KeptFrom(request.raw, 1)
    /\ \A i \in 1..Len(calls) : \A j \in (i + 1)..Len(calls) :
           calls[i].type \in {"audio-features", "tracks", "sp.tracks raised"}
               => calls[j].type \notin {"track", "sp.search raised"}

\* Two lines were searched, then the features fetched for both at once.
C15_Witness ==
    /\ pc = "responded"
    /\ ret.status = 200
    /\ "track_entries" \in DOMAIN locals
    /\ locals.found_at = <<1, 2>>
    /\ Len(calls) = 5
    /\ <<calls[1].type, calls[2].type, calls[3].type, calls[4].type, calls[5].type>>
           = <<"track", "track", "audio-features", "tracks", "audio-features">>
    /\ Len(calls[3].q) > Len(locals.all_search_results[1].results)

(***************************************************************************)
(* get_reccobeats_features_for_spotify_ids on lists of up to three chunks  *)
(***************************************************************************)
MaxIds == 81

\* n track ids
FeatureIds(n) == [i \in 1..n |-> "t" \o ToString(i)]

\* The Feature Service holds every track, or the odd ones only, or files
\* its items without an href, under the track id.
FetchDbs ==
    { [i \in {FeatureIds(MaxIds)[k] : k \in 1..MaxIds} |->
          ItemFor(i, Some(R(120, 1)), Some(5), Some(1))],
      [i \in {FeatureIds(MaxIds)[k] : k \in {j \in 1..MaxIds : j % 2 = 1}} |->
          ItemFor(i, Some(R(98, 1)), Some(2), Some(0))],
      [i \in {FeatureIds(MaxIds)[k] : k \in 1..MaxIds} |->
          FeatureItem("", i, Some(R(120, 1)), None, None)] }

InitFetch ==
    /\ pc = "request"
    /\ request \in {[op |-> "get_reccobeats_features_for_spotify_ids",
                     spotify_ids |-> FeatureIds(n)] :
                        n \in {0, 1, 40, 41, 80, MaxIds}}
    /\ feature_db \in FetchDbs
    /\ calls = <<>>
    /\ ret = <<>>
    /\ locals = <<>>
    /\ lines = <<>>
    /\ last_artist = ""
    /\ results = <<>>

\* One call of the function, the batch calls in failed going wrong.
FetchFeatures ==
    /\ pc = "request"
    /\ \E failed \in FeatureFailures((Len(request.spotify_ids) + 39) \div 40) :
        \E fetched \in {get_reccobeats_features_for_spotify_ids(
                            request.spotify_ids, feature_db, failed)} :
            /\ calls' = fetched.calls
            /\ ret' = [raised |-> fetched.raised,
                       features_by_id |-> fetched.features_by_id]
    /\ pc' = "responded"
    /\ UNCHANGED <<request, locals, feature_db, parseVars>>

NextFetch == FetchFeatures

SpecFetch == InitFetch /\ [][NextFetch]_vars

\* The ids asked by the batch calls that went through.
DeliveredIds ==
    UNION {{calls[c].q[k] : k \in 1..Len(calls[c].q)} :
           c \in {b \in 1..Len(calls) : calls[b].ok}}

\* C11: a failed feature-batch call (timeout, HTTP error, unparseable or
\* malformed payload) is skipped: the function raises nothing and returns
\* the features of every id delivered by the other batch calls, the ids of
\* the failed batch being absent.
C11_FailedBatchSkipped ==
    pc = "responded" =>
        /\ ~ret.raised
        /\ DOMAIN ret.features_by_id = DeliveredIds \cap DOMAIN feature_db
        /\ \A id \in DOMAIN ret.features_by_id :
               ret.features_by_id[id] = feature_db[id]

\* 41 ids: the first batch call delivers 40 items, the second answers a
\* malformed payload and the function raises.
C11_Witness ==
    /\ pc = "responded"
    /\ Len(request.spotify_ids) = 41
    /\ Len(calls) = 2
    /\ calls[1].ok /\ Len(calls[1].items) = 40
    /\ ~calls[2].ok
    /\ ret.raised

(***************************************************************************)
(* Normalization of one raw line, applied once and again                   *)
(***************************************************************************)
MaxTokens == 3

\* The pieces raw lines are made of.
RawTokens ==
    { Chars("1. "), Chars("A2 "), Chars("Side A "), Chars("Song"),
      Chars(" (LP)"), Chars(" [x]"), Chars(" MONO"), Chars("* "),
      Chars("- "), Chars("--"), <<" ">>, <<EmDash>> }

RECURSIVE Concat(_)
Concat(pieces) ==
    IF pieces = <<>> THEN <<>> ELSE Head(pieces) \o Concat(Tail(pieces))

RawLines == {Concat(pieces) : pieces \in SeqsUpTo(RawTokens, MaxTokens)}

InitClean ==
    /\ pc = "raw"
    /\ request \in {[op |-> "normalize", line |-> x] : x \in RawLines}
    /\ ret = <<>>
    /\ calls = <<>>
    /\ locals = <<>>
    /\ feature_db = <<>>
    /\ lines = <<>>
    /\ last_artist = ""
    /\ results = <<>>

\* The raw line is normalized.
NormalizeLine ==
    /\ pc = "raw"
    /\ ret' = <<Normalize(request.line)>>
    /\ pc' = "normalized"
    /\ UNCHANGED <<request, calls, handlerVars, parseVars>>

\* The normalized line is normalized again.
NormalizeAgain ==
    /\ pc = "normalized"
    /\ ret' = Append(ret, Normalize(ret[1]))
    /\ pc' = "renormalized"
    /\ UNCHANGED <<request, calls, handlerVars, parseVars>>

NextClean == NormalizeLine \/ NormalizeAgain

SpecClean == InitClean /\ [][NextClean]_vars

\* C17: normalization is idempotent, normalize(normalize(x)) = normalize(x)
\* for every raw line x.
C17_Idempotent ==
    pc = "renormalized" => ret[2] = ret[1]

\* "Side A 1. Song" normalizes to "1. Song", and that to "Song".
C17_Witness ==
    /\ pc = "renormalized"
    /\ request.line = Chars("Side A 1. Song")
    /\ ret[1] = Chars("1. Song")
    /\ ret[2] = Chars("Song")

(***************************************************************************)
(* Two requests parsing their blocks at the same time                      *)
(***************************************************************************)
MaxRequestLines == 2

\* The requests in progress, each a call of
\* parse_lines_with_artist_inference with locals of its own.
Requests == {1, 2}

ConcurrentLines == {"Miles Davis - So What 9:22", "All Blues 11:33"}

\* The mutation of OwnContext used to test the scope of the context: one
\* last_artist for all requests.
SharedContext(r, contexts) == contexts[1]

\* last_artist as the call for request r reads it: the local of its frame
OwnContext(r, contexts) == contexts[r]

InitConcurrent ==
    /\ pc = [r \in Requests |-> "parse_lines"]
    /\ lines \in [Requests -> SeqsUpTo(ConcurrentLines, MaxRequestLines) \ {<<>>}]
    /\ last_artist = [r \in Requests |-> ""]
    /\ results = [r \in Requests |-> <<>>]
    /\ request = <<>>
    /\ calls = <<>>
    /\ ret = <<>>
    /\ locals = <<>>
    /\ feature_db = <<>>

\* One turn of the loop in the call for request r.
ParseLineOf(r) ==
    /\ pc[r] = "parse_lines"
    /\ Len(results[r]) < Len(lines[r])
    /\ \E parsed \in {parse_artist_title_duration(
                          lines[r][Len(results[r]) + 1],
                          OwnContext(r, last_artist))} :
        /\ last_artist' = [last_artist EXCEPT
                               ![r] = IF parsed.artist # "" THEN parsed.artist ELSE @]
        /\ results' = [results EXCEPT ![r] = Append(@, parsed)]
    /\ UNCHANGED <<pc, lines, searchVars, handlerVars>>

\* The loop of the call for request r is over.
ParseReturnOf(r) ==
    /\ pc[r] = "parse_lines"
    /\ Len(results[r]) = Len(lines[r])
    /\ pc' = [pc EXCEPT ![r] = "parsed"]
    /\ UNCHANGED <<parseVars, searchVars, handlerVars>>

NextConcurrent == \E r \in Requests : ParseLineOf(r) \/ ParseReturnOf(r)

SpecConcurrent == InitConcurrent /\ [][NextConcurrent]_vars

\* C16: the carried artist is scoped to one request: however concurrent
\* requests interleave, the parse results of a request depend on its own
\* lines only, and its first line is parsed with an empty context artist.
C16_ContextPerRequest ==
    \A r \in Requests :
        /\ results[r] = SubSeq(parse_lines_with_artist_inference(lines[r]),
                               1, Len(results[r]))
        /\ results[r] # <<>> =>
               results[r][1] = parse_artist_title_duration(lines[r][1], "")

\* Request 1 carried "Miles Davis" to its second line; request 2, whose only
\* line has no artist, got none.
C16_Witness ==
    /\ pc = [r \in Requests |-> "parsed"]
    /\ lines[1] = <<"Miles Davis - So What 9:22", "All Blues 11:33">>
    /\ lines[2] = <<"All Blues 11:33">>
    /\ results[1][2].artist = "Miles Davis"
    /\ results[2][1].artist = ""

(***************************************************************************)
(* key_mode_to_camelot on its own: one call with a key and a mode, each    *)
(* possibly missing or out of range.                                       *)
(***************************************************************************)
MaxKey == 12

InitKey ==
    /\ pc = "key"
    /\ request \in [op   : {"key_mode_to_camelot"},
                    key  : {None} \cup {Some(k) : k \in -1..MaxKey},
                    mode : {None} \cup {Some(m) : m \in -1..2}]
    /\ ret = <<>>
    /\ lines = <<>>
    /\ last_artist = ""
    /\ results = <<>>
    /\ calls = <<>>
    /\ locals = <<>>
    /\ feature_db = <<>>

KeyToCamelot ==
    /\ pc = "key"
    /\ pc' = "responded"
    /\ ret' = key_mode_to_camelot(request.key, request.mode)
    /\ UNCHANGED <<parseVars, request, calls, locals, feature_db>>

NextKey == KeyToCamelot

SpecKey == InitKey /\ [][NextKey]_vars

\* the 24 symbols of the wheel: a position 1..12 and a letter
CamelotSymbols == {ToString(n) \o l : n \in 1..12, l \in {"A", "B"}}

\* C18: on pitch classes 0..11 and modes 0, 1 the mapping is a bijection onto
\* the 24 symbols: the symbol and the key name of a pair are not empty, the
\* symbol is one of the 24, no other pair has it, and every symbol is the
\* symbol of a pair.
C18_CamelotBijection ==
    (/\ pc = "responded"
     /\ request.key \in {Some(k) : k \in 0..11}
     /\ request.mode \in {Some(0), Some(1)})
    => /\ ret[1] # ""
       /\ ret[2] # ""
       /\ ret[1] \in CamelotSymbols
       /\ \A k \in 0..11, m \in {0, 1} :
              <<k, m>> # <<request.key[1], request.mode[1]>>
              => key_mode_to_camelot(Some(k), Some(m))[1] # ret[1]
       /\ CamelotSymbols =
              {key_mode_to_camelot(Some(k), Some(m))[1] : k \in 0..11, m \in {0, 1}}

\* A minor is 8A.
C18_Witness ==
    /\ pc = "responded"
    /\ request.key = Some(9)
    /\ request.mode = Some(0)
    /\ ret = <<"8A", "A min">>

(***************************************************************************)
(* best_artist_similarity on its own: a requested artist credit written    *)
(* from one or more artist names and the separators of co-credits, against *)
(* the artists of one candidate.                                           *)
(***************************************************************************)
\* A requested credit as it is written and the artist names it was written
\* from, in order.
Credit(requested, credited) == [requested |-> requested, credited |-> credited]

RequestedCredits ==
    { Credit("", <<>>),
      Credit("Stan Getz", <<"Stan Getz">>),
      Credit(" charlie byrd ", <<"Charlie Byrd">>),
      Credit("Stan Getz, Charlie Byrd", <<"Stan Getz", "Charlie Byrd">>),
      Credit("Stan Getz,Charlie Byrd", <<"Stan Getz", "Charlie Byrd">>),
      Credit("Charlie Byrd & Stan Getz", <<"Charlie Byrd", "Stan Getz">>),
      Credit("Stan Getz&Charlie Byrd", <<"Stan Getz", "Charlie Byrd">>),
      Credit("Stan Getz feat. Charlie Byrd", <<"Stan Getz", "Charlie Byrd">>),
      Credit("Stan Getz Feat. Charlie Byrd", <<"Stan Getz", "Charlie Byrd">>),
      Credit("Stan Getz ft. Charlie Byrd", <<"Stan Getz", "Charlie Byrd">>),
      Credit("Stan Getz FT. Charlie Byrd", <<"Stan Getz", "Charlie Byrd">>),
      Credit("Stan Getz featuring Charlie Byrd", <<"Stan Getz", "Charlie Byrd">>),
      Credit("Stan Getz FEATURING Charlie Byrd", <<"Stan Getz", "Charlie Byrd">>),
      Credit("Joao Gilberto, , Stan Getz", <<"Joao Gilberto", "Stan Getz">>),
      Credit("Stan Getz, Joao Gilberto & Astrud Gilberto",
             <<"Stan Getz", "Joao Gilberto", "Astrud Gilberto">>),
      Credit("Joao Gilberto feat. Stan Getz, Charlie Byrd",
             <<"Joao Gilberto", "Stan Getz", "Charlie Byrd">>) }

CandidateArtists ==
    { <<>>, <<"">>, <<"Charlie Byrd">>, <<" CHARLIE byrd ">>, <<"Charlie Bird">>,
      <<"Astrud Gilberto">>, <<"Astrud Gilberto", "Stan Getz">> }

InitArtist ==
    /\ pc = "artist"
    /\ \E credit \in RequestedCredits, cands \in CandidateArtists :
           request = [op |-> "best_artist_similarity",
                      requested |-> credit.requested,
                      credited |-> credit.credited,
                      candidate_artists |-> cands]
    /\ ret = <<>>
    /\ lines = <<>>
    /\ last_artist = ""
    /\ results = <<>>
    /\ calls = <<>>
    /\ locals = <<>>
    /\ feature_db = <<>>

BestArtistSimilarity ==
    /\ pc = "artist"
    /\ pc' = "responded"
    /\ ret' = best_artist_similarity(request.requested, request.candidate_artists)
    /\ UNCHANGED <<parseVars, request, calls, locals, feature_db>>

NextArtist == BestArtistSimilarity

SpecArtist == InitArtist /\ [][NextArtist]_vars

\* C19: the requested credit is split at commas, ampersands, "feat.", "ft."
\* and "featuring" in any case, and the result is the greatest similarity of
\* a requested name and a candidate artist (0 when there is no pair); so it
\* is 1 when a requested name equals a candidate artist up to case and the
\* white space around it.
C19_BestOverPairs ==
    pc = "responded" =>
        \E sims \in {[i \in 1..Len(request.credited) |->
                         [j \in 1..Len(request.candidate_artists) |->
                              similarity(request.credited[i],
                                         request.candidate_artists[j])]]} :
            /\ \A i \in DOMAIN sims : \A j \in DOMAIN sims[i] :
                   /\ RLeq(sims[i][j], ret)
                   /\ (/\ Strip(Lower(Chars(request.credited[i])))
                              = Strip(Lower(Chars(request.candidate_artists[j])))
                       /\ Strip(Chars(request.credited[i])) # <<>>)
                      => ret = One
            /\ \/ ret = Zero
               \/ \E i \in DOMAIN sims : \E j \in DOMAIN sims[i] : ret = sims[i][j]

\* "Stan Getz, Charlie Byrd" against a candidate credited to Charlie Byrd only
C19_Witness ==
    /\ pc = "responded"
    /\ request.requested = "Stan Getz, Charlie Byrd"
    /\ request.candidate_artists = <<"Charlie Byrd">>
    /\ ret = One

(***************************************************************************)
(* parse_artist_title_duration on tab-separated lines: a line is written   *)
(* from an optional track number, one or two text fields and an optional   *)
(* duration, and parsed under a context artist.                            *)
(***************************************************************************)
TabNumbers == {"", "8", "12"}

\* what stands between the track number and the first text field
TabGaps == {"\t", "\t\t"}

TabTexts ==
    { <<"Dear Limmertz">>, <<"Maracana">>, <<"a-ha">>, <<"Stan Getz - Desafinado">>,
      <<"azymuth -", "Club Morrocco">>, <<"Stan Getz", "Desafinado">>,
      <<"Stan Getz - Desafinado", "Take 2">>, <<"Orlandivo*", "Onde">> }

TabDurations ==
    { None, Some([text |-> "4:34", mins |-> 4, secs |-> 34]),
      Some([text |-> "12:05", mins |-> 12, secs |-> 5]) }

TabContexts == {"", "Azymuth"}

\* the line as it is written
TabLine(number, gap, fields, duration) ==
    (IF number # "" THEN number \o gap ELSE "")
        \o fields[1]
        \o (IF Len(fields) > 1 THEN "\t" \o fields[2] ELSE "")
        \o (IF duration # None THEN "\t" \o duration[1].text ELSE "")

InitTab ==
    /\ pc = "tab"
    /\ \E number \in TabNumbers, gap \in TabGaps, fields \in TabTexts,
          duration \in TabDurations, inferred_artist \in TabContexts :
           /\ number # "" \/ Len(fields) > 1 \/ duration # None
           /\ request = [op |-> "parse_artist_title_duration",
                         line |-> TabLine(number, gap, fields, duration),
                         inferred_artist |-> inferred_artist,
                         number |-> number,
                         fields |-> fields,
                         duration |-> duration]
    /\ ret = <<>>
    /\ lines = <<>>
    /\ last_artist = ""
    /\ results = <<>>
    /\ calls = <<>>
    /\ locals = <<>>
    /\ feature_db = <<>>

ParseTabLine ==
    /\ pc = "tab"
    /\ pc' = "responded"
    /\ ret' = parse_artist_title_duration(request.line, request.inferred_artist)
    /\ UNCHANGED <<parseVars, request, calls, locals, feature_db>>

NextTab == ParseTabLine

SpecTab == InitTab /\ [][NextTab]_vars

\* C20: of a tab-separated line, a trailing mm:ss field is the duration,
\* 60 * minutes + seconds; a numeric first field is discarded; and when one
\* field remains it is the title, the artist being the context artist ("" when
\* there is none).
C20_TabSingleField ==
    pc = "responded" =>
        /\ request.duration # None =>
               ret.duration = Some(60 * request.duration[1].mins
                                       + request.duration[1].secs)
        /\ Len(request.fields) = 1 =>
               /\ ret.title = request.fields[1]
               /\ ret.artist = request.inferred_artist

\* The one field left of "a-ha\t4:34" holds a hyphen and no track number came
\* before it: the title is lost.
C20_Witness ==
    /\ pc = "responded"
    /\ request.line = "a-ha\t4:34"
    /\ request.inferred_artist = ""
    /\ ret = [artist |-> "", title |-> "", duration |-> Some(274)]

\* The case the code handles as stated: a track number came before the one
\* field left, or the field holds no hyphen.
TabSingleFieldKept ==
    (/\ pc = "responded"
     /\ Len(request.fields) = 1
     /\ request.number # "" \/ ~Contains(Chars(request.fields[1]), <<"-">>))
    => /\ ret.title = request.fields[1]
       /\ ret.artist = request.inferred_artist

\* "8\t\tDear Limmertz\t4:34" gives the title "Dear Limmertz" and 274 seconds.
TabExample ==
    /\ pc = "responded"
    /\ request.line = "8\t\tDear Limmertz\t4:34"
    /\ request.inferred_artist = ""
    /\ ret = [artist |-> "", title |-> "Dear Limmertz", duration |-> Some(274)]

\* The two sides of the text fields of a tab-separated line whose first field
\* ends in a dash or holds " - ": what is left of the dash, and what is right
\* of it with the fields after it.
DashSides(fields) ==
    LET first == Chars(fields[1])
        rest == IF Len(fields) > 1 THEN Chars(fields[2]) ELSE <<>>
    IN  IF EndsWith(first, "-")
        THEN <<Str(Strip(SubSeq(first, 1, Len(first) - 1))), Str(Strip(rest))>>
        ELSE <<Str(Strip(SplitOnce(first, <<" ", "-", " ">>)[1])),
               Str(Strip(SplitOnce(first, <<" ", "-", " ">>)[2] \o <<" ">> \o rest))>>

\* C21: of a tab-separated line, when the first field left after the track
\* number and the duration ends in a dash or holds " - ", the artist is the
\* non-empty left side and the title the right side, also when no other field
\* is left.
C21_TabDashSplit ==
    (/\ pc = "responded"
     /\ \/ EndsWith(Chars(request.fields[1]), "-")
        \/ Contains(Chars(request.fields[1]), <<" ", "-", " ">>))
    => /\ ret.artist # ""
       /\ ret.artist = DashSides(request.fields)[1]
       /\ ret.title = DashSides(request.fields)[2]

\* "Stan Getz - Desafinado" is the one field left and is not split: artist and
\* title are both empty.
C21_Witness ==
    /\ pc = "responded"
    /\ request.line = "Stan Getz - Desafinado\t4:34"
    /\ request.inferred_artist = ""
    /\ ret = [artist |-> "", title |-> "", duration |-> Some(274)]

\* With a field after it, the first field is split as stated.
TabDashSplitSeveral ==
    (/\ pc = "responded"
     /\ Len(request.fields) > 1
     /\ \/ EndsWith(Chars(request.fields[1]), "-")
        \/ Contains(Chars(request.fields[1]), <<" ", "-", " ">>))
    => /\ ret.artist # ""
       /\ ret.artist = DashSides(request.fields)[1]
       /\ ret.title = DashSides(request.fields)[2]

(***************************************************************************)
(* parse_artist_title_duration on lines without tabs: a line is written    *)
(* from an optional track number, a body and an optional duration, and     *)
(* parsed under a context artist.  A body is given with the artist and the *)
(* title a reader takes it apart into.                                     *)
(***************************************************************************)
PlainNumbers == {"", "8 ", "12  "}

Body(text, artist, title) == [text |-> text, artist |-> artist, title |-> title]

PlainBodies ==
    { Body("Miles Davis - So What", "Miles Davis", "So What"),
      Body("Jay-Z - 99 Problems", "Jay-Z", "99 Problems"),
      Body("A - B - C", "A", "B - C"),
      Body("Sergio Mendes- Oba-La-La", "Sergio Mendes", "Oba-La-La"),
      Body("Orlandivo* - Onde", "Orlandivo", "Onde"),
      Body("Take 5: a-b", "Take 5: a", "b"),
      Body("Intro: Part One", "Intro", "Part One"),
      Body("Suite: I: II", "Suite", "I: II"),
      Body("Intro: 1:23 x", "", "Intro: 1:23 x"),
      Body("Maracana", "", "Maracana") }

PlainDurations == {"", " 4:34"}

InitPlain ==
    /\ pc = "plain"
    /\ \E number \in PlainNumbers, body \in PlainBodies,
          duration \in PlainDurations, inferred_artist \in TabContexts :
           request = [op |-> "parse_artist_title_duration",
                      line |-> number \o body.text \o duration,
                      inferred_artist |-> inferred_artist,
                      number |-> number,
                      body |-> body,
                      duration |-> duration]
    /\ ret = <<>>
    /\ lines = <<>>
    /\ last_artist = ""
    /\ results = <<>>
    /\ calls = <<>>
    /\ locals = <<>>
    /\ feature_db = <<>>

ParsePlainLine ==
    /\ pc = "plain"
    /\ pc' = "responded"
    /\ ret' = parse_artist_title_duration(request.line, request.inferred_artist)
    /\ UNCHANGED <<parseVars, request, calls, locals, feature_db>>

NextPlain == ParsePlainLine

SpecPlain == InitPlain /\ [][NextPlain]_vars

\* C22: of a line without tabs the leading integer goes, and the line is
\* split at the first " - ", else at the first "-", else at the first ":"
\* unless it holds an mm:ss-like token: the artist is the left side and the
\* title the right side.  A line without a separator is a title; with no
\* context artist its artist is "".
C22_PlainSplit ==
    pc = "responded" =>
        /\ ret.title = request.body.title
        /\ request.body.artist # "" => ret.artist = request.body.artist
        /\ request.body.artist = "" => ret.artist = request.inferred_artist

\* "12  Sergio Mendes- Oba-La-La 4:34" is split at its first bare dash.
C22_Witness ==
    /\ pc = "responded"
    /\ request.line = "12  Sergio Mendes- Oba-La-La 4:34"
    /\ request.inferred_artist = ""
    /\ ret = [artist |-> "Sergio Mendes", title |-> "Oba-La-La",
              duration |-> Some(274)]

\* C23: the artist of a line never ends with the attribution asterisk typed
\* on the line ("Orlandivo*" is returned as "Orlandivo"), whether the line
\* is tab-separated or not.  The context artists hold no asterisk.
C23_NoArtistAsterisk ==
    pc = "responded" => ~EndsWith(Chars(ret.artist), "*")

\* The first field of "Orlandivo*\tOnde\t4:34" is returned with its asterisk.
C23_Witness ==
    /\ pc = "responded"
    /\ request.line = "Orlandivo*\tOnde\t4:34"
    /\ ret = [artist |-> "Orlandivo*", title |-> "Onde", duration |-> Some(274)]

(***************************************************************************)
(* similarity on its own: one call on two strings.                         *)
(***************************************************************************)
SimilarityTexts ==
    {"", " ", "ab", "abc", "bca", "tide", "diet", "Tide ", "So What", "What So"}

InitSimilarity ==
    /\ pc = "similarity"
    /\ request \in [op : {"similarity"}, a : SimilarityTexts, b : SimilarityTexts]
    /\ ret = <<>>
    /\ lines = <<>>
    /\ last_artist = ""
    /\ results = <<>>
    /\ calls = <<>>
    /\ locals = <<>>
    /\ feature_db = <<>>

Similarity ==
    /\ pc = "similarity"
    /\ pc' = "responded"
    /\ ret' = similarity(request.a, request.b)
    /\ UNCHANGED <<parseVars, request, calls, locals, feature_db>>

NextSimilarity == Similarity

SpecSimilarity == InitSimilarity /\ [][NextSimilarity]_vars

\* C24: similarity(a, b) = similarity(b, a), 0 <= similarity(a, b) <= 1, and
\* similarity(x, x) = 1 for every non-empty x.
C24_SymmetricBounded ==
    pc = "responded" =>
        /\ ret = similarity(request.b, request.a)
        /\ RLeq(Zero, ret)
        /\ RLeq(ret, One)
        /\ (request.a = request.b /\ request.a # "") => ret = One

\* 0 <= similarity(a, b) <= 1, and similarity(x, x) = 1 unless x is empty or
\* white space only.
SimilarityBounded ==
    pc = "responded" =>
        /\ RLeq(Zero, ret)
        /\ RLeq(ret, One)
        /\ (request.a = request.b /\ Strip(Chars(request.a)) # <<>>) => ret = One

\* similarity("tide", "diet") is 1/4 and similarity("diet", "tide") is 1/2.
C24_Witness ==
    /\ pc = "responded"
    /\ request.a = "tide"
    /\ request.b = "diet"
    /\ ret = R(1, 4)
    /\ similarity("diet", "tide") = R(1, 2)

(***************************************************************************)
(* refresh_track: the track is taken by selected_track_id, else by         *)
(* spotify_id, else by a search; with search_mode a ranked list is         *)
(* returned.  The genre and release-year lookups of the single result      *)
(* (sp.artist, sp.album, each inside try/except) are left out.             *)
(***************************************************************************)
\* what sp.track answers for an id it knows
TrackById(id) == Track(id, "So What", <<"Miles Davis">>, Some(562000), 50)

\* a call of sp.track as logged; full is None when the call raised
TrackCall(id, full) ==
    [q |-> id, type |-> "sp.track", ok |-> full # None,
     items |-> IF full = None THEN <<>> ELSE <<full[1]>>]

\* the JSON of a single result (src/app.py 4825-4899) for the track full
\* and its features feat
RefreshItem(tid, full, feat) ==
    LET Of(bpm, key) ==
            [status |-> 200, spotify_id |-> tid, bpm |-> bpm,
             camelot |-> IF key = None THEN None ELSE Some(key[1]),
             key_name |-> IF key = None THEN None ELSE Some(key[2]),
             popularity |-> full.popularity, name |-> full.name,
             duration_ms |-> full.duration_ms, error |-> None]
    IN  IF feat.tempo # None /\ feat.key # None /\ feat.mode # None
        THEN Of(Some(RoundHalfEven(feat.tempo[1][1], feat.tempo[1][2])),
                key_mode_to_camelot(feat.key, feat.mode))
        ELSE Of(None, None)

\* The mutation of ResolvedId used to test the precedence of the ids:
\* spotify_id comes before selected_track_id.
SpotifyIdFirst(data) ==
    IF data.spotify_id # None THEN data.spotify_id ELSE data.selected_track_id

\* the id refresh_track fetches with sp.track, None when it has none
\* (src/app.py 4680-4698)
ResolvedId(data) ==
    IF data.selected_track_id # None THEN data.selected_track_id
    ELSE data.spotify_id

\* refresh_track for the request body data: fetched tells whether sp.track
\* answers, catalog_up whether sp.search does.
refresh_track(data, fetched, catalog_up, answer1, answer2, db, failed) ==
    LET artists == Stripped(data.artists)
        title == Stripped(data.title)
        Resp(made, response) ==
            [calls |-> made, locals |-> <<>>, responses |-> {response}]
        Features(made, full, tid, f) ==
            IF f.raised
            THEN Resp(made \o f.calls, [status |-> 500, error |-> "audio-features"])
            ELSE [calls |-> made \o f.calls,
                  locals |-> [full |-> full, tid |-> tid,
                              features_by_id |-> f.features_by_id],
                  responses |-> {RefreshItem(tid, full,
                                     IF tid \in DOMAIN f.features_by_id
                                     THEN f.features_by_id[tid]
                                     ELSE NoFeatures)}]
        Resolved(made, full, tid) ==
            IF tid = ""
            THEN Resp(made, [status |-> 500, error |-> "No track id resolved"])
            ELSE Features(made, full, tid,
                          get_reccobeats_features_for_spotify_ids(<<tid>>, db, failed))
        Searched(made, found) ==
            IF found.ret = None
            THEN Resp(made \o found.calls,
                      [status |-> 404, error |-> "Track not found in search"])
            ELSE Resolved(made \o found.calls, found.ret[1], found.ret[1].id)
        Down(made, q) ==
            Resp(Append(made, Raised(Call(q, 10, <<>>), "sp.search")),
                 [status |-> 500, error |-> "sp.search"])
        Single(made, full, tid) ==
            IF full # None THEN Resolved(made, full[1], tid)
            ELSE IF title = ""
            THEN Resp(made, [status |-> 400, error |-> "Missing title for search"])
            ELSE IF ~catalog_up THEN Down(made, StructuredQuery(artists, title))
            ELSE Searched(made, search_track(artists, title, None, answer1, answer2))
        Ranked(made, h) == [h EXCEPT !.calls = made \o @]
        Mode(made, full, tid) ==
            IF data.search_mode /\ data.selected_track_id = None
            THEN (IF title = ""
                  THEN Resp(made, [status |-> 400, error |-> "Missing title for search"])
                  ELSE IF ~catalog_up THEN Down(made, StructuredQuery(artists, title))
                  ELSE Ranked(made, RankedResponse(artists, title, None,
                                                   answer1, answer2, db, failed)))
            ELSE Single(made, full, tid)
        ById(id, full) ==
            IF full = None /\ data.selected_track_id # None
            THEN Resp(<<TrackCall(id, None)>>,
                      [status |-> 404, error |-> "Could not fetch track " \o id])
            ELSE Mode(<<TrackCall(id, full)>>, full, id)
    IN  IF ResolvedId(data) # None
        THEN ById(ResolvedId(data)[1],
                  IF fetched THEN Some(TrackById(ResolvedId(data)[1])) ELSE None)
        ELSE Mode(<<>>, None, "")

(***************************************************************************)
(* api_search_albums                                                       *)
(***************************************************************************)
Album(id, name, release_date, total_tracks, popularity) ==
    [id |-> id, name |-> name, release_date |-> release_date,
     total_tracks |-> total_tracks, popularity |-> popularity]

\* the queries of search_albums_multiple (src/app.py 397-404)
AlbumQuery(artist, album) ==
    IF artist # "" THEN "album:\"" \o album \o "\" artist:\"" \o artist \o "\""
    ELSE album

AlbumCall(q, limit, items) == [Call(q, limit, items) EXCEPT !.type = "album"]

\* items.sort(key=(popularity, total_tracks), reverse=True): the sort is
\* stable, albums of equal key keep their order.
SortAlbums(s) ==
    LET Before(j, k) ==
            \/ s[j].popularity > s[k].popularity
            \/ /\ s[j].popularity = s[k].popularity
               /\ s[j].total_tracks > s[k].total_tracks
            \/ /\ s[j].popularity = s[k].popularity
               /\ s[j].total_tracks = s[k].total_tracks
               /\ j < k
        Rank(k) == 1 + Cardinality({j \in 1..Len(s) : Before(j, k)})
    IN  [p \in 1..Len(s) |-> s[CHOOSE k \in 1..Len(s) : Rank(k) = p]]

\* search_albums_multiple, given the catalog's answers: the calls it makes
\* and the list it returns
search_albums_multiple(artist, album, limit, answer1, answer2) ==
    IF answer1 = <<>> /\ artist # ""
    THEN [calls |-> <<AlbumCall(AlbumQuery(artist, album), limit, answer1),
                      AlbumCall(artist \o " " \o album, limit, answer2)>>,
          ret |-> SortAlbums(answer2)]
    ELSE [calls |-> <<AlbumCall(AlbumQuery(artist, album), limit, answer1)>>,
          ret |-> SortAlbums(answer1)]

\* the formatted results of api_search_albums (the artists and the link of
\* an album are left out)
FormattedAlbums(found) ==
    [k \in 1..Len(found) |->
        [id |-> found[k].id, name |-> found[k].name,
         year |-> Str(Split(Chars(found[k].release_date), <<"-">>)[1]),
         total_tracks |-> found[k].total_tracks,
         popularity |-> found[k].popularity]]

\* api_search_albums for the request body data; catalog_up tells whether
\* sp.search answers.
api_search_albums(data, catalog_up, answer1, answer2) ==
    LET Found(found) ==
            [calls |-> found.calls, locals |-> [results |-> found.ret],
             responses |-> {[status |-> 200, results |-> FormattedAlbums(found.ret),
                             error |-> None]}]
    IN  IF Stripped(data.album) = ""
        THEN [calls |-> <<>>, locals |-> <<>>,
              responses |-> {[status |-> 400, error |-> "Album name required"]}]
        ELSE IF ~catalog_up
        THEN [calls |-> <<Raised(AlbumCall(AlbumQuery(Stripped(data.artist),
                                                      Stripped(data.album)),
                                           10, <<>>), "sp.search")>>,
              locals |-> <<>>,
              responses |-> {[status |-> 500, results |-> <<>>,
                              error |-> Some("sp.search")]}]
        ELSE Found(search_albums_multiple(Stripped(data.artist), Stripped(data.album),
                                          10, answer1, answer2))

(***************************************************************************)
(* The three search handlers against the catalog and the Feature Service   *)
(***************************************************************************)
HandlerListing ==
    << Track("p1", "So What", <<"Miles Davis">>, Some(562000), 50),
       Track("x9", "Blue in Green", <<"Bill Evans">>, Some(337000), 40) >>

HandlerCatalogAnswers ==
    {a \in ListingAnswers(HandlerListing, 10) \X ListingAnswers(HandlerListing, 10) :
        a[1] # <<>> => a[2] = <<>>}

AlbumListing ==
    << Album("a1", "Kind of Blue", "1959-08-17", 5, 60),
       Album("a2", "Kind of Blue (Legacy Edition)", "", 21, 60),
       Album("a3", "Kind of Blue", "2009", 5, 70) >>

AlbumCatalogAnswers ==
    {a \in ListingAnswers(AlbumListing, 10) \X ListingAnswers(AlbumListing, 10) :
        a[1] # <<>> => a[2] = <<>>}

\* What the Feature Service may hold: nothing; tempo, key and mode of every
\* track; the tempo only; tempo and key without mode.
HandlerIds == {"p1", "x9", "s1", "q1"}
DbNone == <<>>
DbComplete == [id \in HandlerIds |-> ItemFor(id, Some(R(241, 2)), Some(9), Some(0))]
DbTempoOnly == [id \in HandlerIds |-> ItemFor(id, Some(R(120, 1)), None, None)]
DbNoMode == [id \in HandlerIds |-> ItemFor(id, Some(R(120, 1)), Some(9), None)]
HandlerDbs == {DbNone, DbComplete, DbTempoOnly, DbNoMode}

HandlerRequests ==
    {[op |-> "refresh_track",
      data |-> [artists |-> "Miles Davis", title |-> title,
                search_mode |-> search_mode, spotify_id |-> spotify_id,
                selected_track_id |-> selected_track_id]] :
        title \in {"So What", " "}, search_mode \in BOOLEAN,
        spotify_id \in {None, Some("q1")},
        selected_track_id \in {None, Some("s1")}}
    \cup
    {[op |-> "api_search_tracks",
      data |-> [artist |-> "Miles Davis", title |-> title, duration_sec |-> None]] :
        title \in {"So What", ""}}
    \cup
    {[op |-> "api_search_albums",
      data |-> [artist |-> artist, album |-> album]] :
        artist \in {"", "Miles Davis"}, album \in {"Kind of Blue", " "}}

InitHandlers ==
    /\ pc = "request"
    /\ request \in HandlerRequests
    /\ feature_db \in HandlerDbs
    /\ calls = <<>>
    /\ ret = <<>>
    /\ locals = <<>>
    /\ lines = <<>>
    /\ last_artist = ""
    /\ results = <<>>

\* POST /api/refresh_track
RefreshTrack ==
    /\ pc = "request"
    /\ request.op = "refresh_track"
    /\ \E a \in HandlerCatalogAnswers, failed \in FeatureFailures(1),
          fetched \in BOOLEAN, catalog_up \in BOOLEAN :
        \E h \in {refresh_track(request.data, fetched, catalog_up, a[1], a[2],
                                feature_db, failed)} :
            Responded(h)

\* POST /api/search_tracks
SearchTracksOf ==
    /\ pc = "request"
    /\ request.op = "api_search_tracks"
    /\ \E a \in HandlerCatalogAnswers, failed \in FeatureFailures(1) :
        \E h \in {api_search_tracks(request.data, a[1], a[2], feature_db, failed)} :
            Responded(h)

\* POST /api/search_albums
ApiSearchAlbums ==
    /\ pc = "request"
    /\ request.op = "api_search_albums"
    /\ \E a \in AlbumCatalogAnswers, catalog_up \in BOOLEAN :
        \E h \in {api_search_albums(request.data, catalog_up, a[1], a[2])} :
            Responded(h)

NextHandlers == RefreshTrack \/ SearchTracksOf \/ ApiSearchAlbums

SpecHandlers == InitHandlers /\ [][NextHandlers]_vars

\* The field a handler searches by (title or album) is empty or white space.
RequiredFieldEmpty ==
    \/ /\ request.op = "api_search_albums"
       /\ Strip(Chars(request.data.album)) = <<>>
    \/ /\ request.op \in {"api_search_tracks", "refresh_track"}
       /\ Strip(Chars(request.data.title)) = <<>>

\* The handler has to search: always for the two search handlers; for
\* refresh_track when no selected_track_id is given and search_mode is set,
\* or no spotify_id is given, or the fetch of the spotify_id failed.
MustSearch ==
    \/ request.op \in {"api_search_tracks", "api_search_albums"}
    \/ /\ request.op = "refresh_track"
       /\ request.data.selected_track_id = None
       /\ \/ request.data.search_mode
          \/ request.data.spotify_id = None
          \/ calls # <<>> /\ calls[1].type = "sp.track" /\ ~calls[1].ok

\* C25 as stated: a request whose required title or album is empty is
\* answered with 400 before any Catalog or Feature Service call.
C25_MalformedBeforeCalls ==
    (pc = "responded" /\ MustSearch /\ RequiredFieldEmpty)
    => ret.status = 400 /\ calls = <<>>

\* C25: a request that has to search with an empty title or album is answered
\* with 400 and a message, and no other answer is a 400; no Catalog search
\* and no Feature Service call is made for it.  The only call that can come
\* before the 400 is refresh_track's one fetch of the given spotify_id.
C25_MalformedIs400 ==
    pc = "responded" =>
        /\ (MustSearch /\ RequiredFieldEmpty) =>
               /\ ret.status = 400
               /\ ret.error \in {"Track title required", "Album name required",
                                 "Missing title for search"}
               /\ \A k \in 1..Len(calls) :
                      /\ calls[k].type = "sp.track"
                      /\ request.op = "refresh_track"
                      /\ Some(calls[k].q) = request.data.spotify_id
               /\ Len(calls) <= 1
        /\ ret.status = 400 => (MustSearch /\ RequiredFieldEmpty)

\* refresh_track with a spotify_id whose fetch failed and a blank title: 400
\* after the one sp.track call.
C25_Witness ==
    /\ pc = "responded"
    /\ request.op = "refresh_track"
    /\ request.data = [artists |-> "Miles Davis", title |-> " ",
                       search_mode |-> FALSE, spotify_id |-> Some("q1"),
                       selected_track_id |-> None]
    /\ ret = [status |-> 400, error |-> "Missing title for search"]
    /\ calls = <<TrackCall("q1", None)>>

\* the ids of the batch calls made, in the order sent
RECURSIVE SentIds(_)
SentIds(made) == IF made = <<>> THEN <<>> ELSE Head(made).q \o SentIds(Tail(made))

\* C26: every requested id is sent in exactly one batch call of an
\* invocation; a batch holds at most 40 ids and the batches follow the input
\* order, so the ids sent, batch after batch, are the ids requested; no batch
\* is requested twice.
C26_EachIdSentOnce ==
    pc = "responded" =>
        /\ SentIds(calls) = request.spotify_ids
        /\ \A c \in 1..Len(calls) :
               /\ calls[c].type = "audio-features"
               /\ Len(calls[c].q) \in 1..40
               /\ calls[c].q = chunk_list(request.spotify_ids, 40)[c]

\* 41 ids: the first batch call answers a malformed payload, the function
\* raises and the 41st id is never sent.
C26_Witness ==
    /\ pc = "responded"
    /\ Len(request.spotify_ids) = 41
    /\ Len(calls) = 1
    /\ ~calls[1].ok
    /\ ret.raised
    /\ SentIds(calls) = SubSeq(request.spotify_ids, 1, 40)

\* When the function returns, every id was sent once, as stated.
EachIdSentOnceOnReturn ==
    (pc = "responded" /\ ~ret.raised) =>
        /\ SentIds(calls) = request.spotify_ids
        /\ \A c \in 1..Len(calls) : Len(calls[c].q) \in 1..40

\* the first call the handler made is a fetch of id that went through / failed
FetchedFirst(id) == calls # <<>> /\ calls[1] = TrackCall(id, Some(TrackById(id)))
FetchFailedFirst(id) == calls # <<>> /\ calls[1] = TrackCall(id, None)

\* the handler searched the catalog for a single track after the calls before
SearchedAfter(before) ==
    /\ Len(calls) > before
    /\ calls[before + 1].type \in {"track", "sp.search raised"}
    /\ calls[before + 1].q = StructuredQuery("Miles Davis", "So What")

\* C27: refresh_track takes its track by selected_track_id, then by
\* spotify_id, then by a search for artists and title.  With a
\* selected_track_id the spotify_id returned is that id, and 404 is the
\* answer when its fetch fails, nothing else being tried; with a spotify_id
\* only whose fetch fails the track is searched: 400 for an empty title, 404
\* when no candidate is accepted; with search_mode and no selected_track_id
\* the answer is a ranked list, never a single track.
C27_Precedence ==
    (pc = "responded" /\ request.op = "refresh_track") =>
        /\ request.data.selected_track_id # None =>
               /\ \/ FetchedFirst(request.data.selected_track_id[1])
                  \/ FetchFailedFirst(request.data.selected_track_id[1])
               /\ FetchFailedFirst(request.data.selected_track_id[1]) =>
                      ret.status = 404 /\ Len(calls) = 1
               /\ ret.status = 200 =>
                      /\ "spotify_id" \in DOMAIN ret
                      /\ ret.spotify_id = request.data.selected_track_id[1]
               /\ \A k \in 1..Len(calls) : calls[k].type \in {"sp.track", "audio-features"}
        /\ (request.data.selected_track_id = None /\ request.data.spotify_id # None) =>
               /\ \/ FetchedFirst(request.data.spotify_id[1])
                  \/ FetchFailedFirst(request.data.spotify_id[1])
               /\ (~request.data.search_mode /\ FetchedFirst(request.data.spotify_id[1])) =>
                      /\ ret.status = 200 => ret.spotify_id = request.data.spotify_id[1]
                      /\ \A k \in 1..Len(calls) :
                             calls[k].type \in {"sp.track", "audio-features"}
               /\ (~request.data.search_mode /\ FetchFailedFirst(request.data.spotify_id[1])) =>
                      IF Strip(Chars(request.data.title)) = <<>>
                      THEN ret.status = 400 /\ Len(calls) = 1
                      ELSE /\ SearchedAfter(1)
                           /\ ret.status \in {200, 404, 500}
                           /\ ret.status = 404 <=>
                                  /\ calls[Len(calls)].type = "track"
                                  /\ \A k \in 1..Len(calls) : calls[k].type # "audio-features"
                           /\ ret.status = 200 =>
                                  \E k \in 2..Len(calls) :
                                      /\ calls[k].type = "track"
                                      /\ \E i \in 1..Len(calls[k].items) :
                                             calls[k].items[i].id = ret.spotify_id
        /\ (request.data.search_mode /\ request.data.selected_track_id = None) =>
               /\ "spotify_id" \notin DOMAIN ret
               /\ ret.status = 200 => "results" \in DOMAIN ret
               /\ \A k \in 1..Len(calls) :
                      calls[k].type = "sp.track" => k = 1

\* Both ids are given and the fetch of the selected one went through: the
\* track returned is the selected one.
C27_Witness ==
    /\ pc = "responded"
    /\ request.op = "refresh_track"
    /\ request.data.selected_track_id = Some("s1")
    /\ request.data.spotify_id = Some("q1")
    /\ ret.status = 200
    /\ ret.spotify_id = "s1"
    /\ ret.bpm = Some(120)
    /\ calls[1] = TrackCall("s1", Some(TrackById("s1")))

\* A spotify_id only, its fetch failed, and the search accepted no candidate.
RefreshNotFound ==
    /\ pc = "responded"
    /\ request.op = "refresh_track"
    /\ request.data.selected_track_id = None
    /\ request.data.spotify_id = Some("q1")
    /\ ~request.data.search_mode
    /\ FetchFailedFirst("q1")
    /\ Len(calls) = 3
    /\ calls[3].items # <<>>
    /\ ret.status = 404

\* C28: for every key and mode, missing or out of range included,
\* key_mode_to_camelot returns a non-empty symbol with a non-empty key name,
\* or two empty strings: the symbol is empty exactly when the name is.
C28_SymbolIffName ==
    (pc = "responded" /\ request.op = "key_mode_to_camelot") =>
        (ret[1] = "" <=> ret[2] = "")

\* Key 9 with mode 2: no symbol, and the name "A min".
C28_Witness ==
    /\ pc = "responded"
    /\ request.op = "key_mode_to_camelot"
    /\ request.key = Some(9)
    /\ request.mode = Some(2)
    /\ ret = <<"", "A min">>

\* With a mode of 0 or 1, or a key out of range or missing, the symbol is
\* empty exactly when the name is.
SymbolIffNameForModes ==
    (/\ pc = "responded"
     /\ request.op = "key_mode_to_camelot"
     /\ request.mode \in {None, Some(0), Some(1)})
    => (ret[1] = "" <=> ret[2] = "")

\* The features the selection of api_process saw for the track id are
\* complete: the track got the feature-presence bonus.
SelectedWithFeatures(id) ==
    /\ id \in DOMAIN locals.all_features_by_id
    /\ locals.all_features_by_id[id].tempo # None
    /\ locals.all_features_by_id[id].key # None
    /\ locals.all_features_by_id[id].mode # None

\* C29: in tracks mode a track selected with the feature-presence bonus
\* (tempo and key known to the selection) is reported with a bpm and a
\* Camelot symbol in the items, whatever feature batch calls fail.
C29_ReportedAsSelected ==
    (/\ pc = "responded"
     /\ request.op = "api_process"
     /\ "track_entries" \in DOMAIN locals)
    => \A k \in 1..Len(ret.items) :
           SelectedWithFeatures(ret.items[k].id)
           => ret.items[k].bpm # None /\ ret.items[k].camelot # None

\* The track of the one item was selected with its features, the second
\* fetch of them failed, and the item has neither bpm nor key.
C29_Witness ==
    /\ pc = "responded"
    /\ request.op = "api_process"
    /\ "track_entries" \in DOMAIN locals
    /\ Len(ret.items) = 1
    /\ SelectedWithFeatures(ret.items[1].id)
    /\ ret.items[1].bpm = None
    /\ ret.items[1].camelot = None
    /\ ret.items[1].key_name = None
    /\ calls[Len(calls)].type = "audio-features"
    /\ ~calls[Len(calls)].ok

\* When the second fetch of the features goes through, the items report what
\* the selection saw.
ReportedAsSelectedIfFetched ==
    (/\ pc = "responded"
     /\ request.op = "api_process"
     /\ "track_entries" \in DOMAIN locals
     /\ calls[Len(calls)].type = "audio-features"
     /\ calls[Len(calls)].ok)
    => \A k \in 1..Len(ret.items) :
           SelectedWithFeatures(ret.items[k].id)
           => ret.items[k].bpm # None /\ ret.items[k].camelot # None

\* The Feature Service answered a call of the handler with an item for the
\* track id that holds tempo, key and mode.
Supplied(id) ==
    \E c \in 1..Len(calls) :
        /\ calls[c].type = "audio-features"
        /\ calls[c].ok
        /\ \E j \in 1..Len(calls[c].items) :
               /\ calls[c].items[j].href = "https://open.spotify.com/track/" \o id
               /\ calls[c].items[j].tempo # None
               /\ calls[c].items[j].key # None
               /\ calls[c].items[j].mode # None

\* The Feature Service answered a call of the handler with an item for the
\* track id that holds a tempo.
TempoSupplied(id) ==
    \E c \in 1..Len(calls) :
        /\ calls[c].type = "audio-features"
        /\ calls[c].ok
        /\ \E j \in 1..Len(calls[c].items) :
               /\ calls[c].items[j].href = "https://open.spotify.com/track/" \o id
               /\ calls[c].items[j].tempo # None

\* The handler answered with a ranked list of tracks / with one track.
RankedAnswer ==
    /\ pc = "responded"
    /\ request.op \in {"api_search_tracks", "refresh_track"}
    /\ ret.status = 200
    /\ "results" \in DOMAIN ret
SingleAnswer ==
    /\ pc = "responded"
    /\ request.op = "refresh_track"
    /\ ret.status = 200
    /\ "spotify_id" \in DOMAIN ret

SingleWithFeatures ==
    /\ SingleAnswer
    /\ Supplied(ret.spotify_id)
    /\ ret.bpm = Some(120)
    /\ ret.camelot = Some("8A")
    /\ ret.key_name = Some("A min")

\* One track refreshed whose id the service does not know: nulls, no error.
SingleAbsent ==
    /\ SingleAnswer
    /\ feature_db = DbNone
    /\ calls[Len(calls)].type = "audio-features"
    /\ calls[Len(calls)].ok
    /\ ret.bpm = None /\ ret.camelot = None /\ ret.key_name = None
    /\ ret.error = None

\* The c-th call of the handler is a call of the Feature Service that
\* answered with tempo, key and mode for the track id.
SuppliedAt(c, id) ==
    /\ calls[c].type = "audio-features"
    /\ calls[c].ok
    /\ \E j \in 1..Len(calls[c].items) :
           /\ calls[c].items[j].href = "https://open.spotify.com/track/" \o id
           /\ calls[c].items[j].tempo # None
           /\ calls[c].items[j].key # None
           /\ calls[c].items[j].mode # None

\* In api_process an item has a bpm exactly when the last call of the
\* Feature Service, the one for the selected tracks, supplied tempo, key and
\* mode for its id; without them bpm, Camelot symbol and key name are null.
ProcessBpmIffRefetched ==
    (/\ pc = "responded"
     /\ request.op = "api_process"
     /\ "track_entries" \in DOMAIN locals
     /\ ret.status = 200)
    => \A k \in 1..Len(ret.items) :
           /\ ret.items[k].bpm # None <=> SuppliedAt(Len(calls), ret.items[k].id)
           /\ ~SuppliedAt(Len(calls), ret.items[k].id)
              => /\ ret.items[k].camelot = None
                 /\ ret.items[k].key_name = None

====
